---- MODULE Spec2Model ----
(***************************************************************************)
(* Model of the miro-app-mcp serverless handlers: the byte-resolution      *)
(* fetcher (miroDownloadBinary, both variants found in the repository),    *)
(* the document-item locator (findDocFormatByTitle), the recreate-and-     *)
(* replace write path and the versioned MCP find/replace write path.       *)
(* The request handlers that drive them (validation, lookup, download,    *)
(* provider calls, write) are modelled with their outbound request log.   *)
(*                                                                         *)
(* Strings are modelled as sequences of lexical tokens, byte arrays as     *)
(* sequences of byte values, HTTP responses as records.  Every remote      *)
(* collaborator answers nondeterministically from a small set of responses.*)
(***************************************************************************)
EXTENDS Integers, Sequences, FiniteSets, TLC

VARIABLES dl, fd, rc, mh, hd, pf, st, cc

vars == <<dl, fd, rc, mh, hd, pf, st, cc>>

(***************************************************************************)
(* Generic sequence helpers.                                               *)
(***************************************************************************)
RECURSIVE Dedup(_)
Dedup(s) ==
  IF s = <<>> THEN <<>>
  ELSE LET front == Dedup(SubSeq(s, 1, Len(s) - 1))
           last  == s[Len(s)]
       IN IF \E i \in 1..Len(front) : front[i] = last THEN front
          ELSE Append(front, last)

RECURSIVE DropLeading(_, _)
DropLeading(s, ws) ==
  IF s # <<>> /\ s[1] \in ws THEN DropLeading(Tail(s), ws) ELSE s

RECURSIVE DropTrailing(_, _)
DropTrailing(s, ws) ==
  IF s # <<>> /\ s[Len(s)] \in ws
  THEN DropTrailing(SubSeq(s, 1, Len(s) - 1), ws) ELSE s

\* String.prototype.trim on a token string: whitespace tokens are " " and "\n".
Trim(s) == DropTrailing(DropLeading(s, {" ", "\n"}), {" ", "\n"})

(***************************************************************************)
(* PDF validator.                                                          *)
(***************************************************************************)
isPdfMagic_ThreeBytes(bytes) ==
  /\ Len(bytes) >= 3
  /\ bytes[1] = 37
  /\ bytes[2] = 80
  /\ bytes[3] = 68

isPdfMagic_Any(bytes) == TRUE

isPdfMagic(bytes) ==
  /\ Len(bytes) >= 4
  /\ bytes[1] = 37
  /\ bytes[2] = 80
  /\ bytes[3] = 68
  /\ bytes[4] = 70

ErrJsonBody == <<123, 34, 101, 114>>

(***************************************************************************)
(* URLs, JSON metadata and candidate extraction.                           *)
(***************************************************************************)
UrlCdn      == <<"https://", "cdn.example", "/x">>
UrlMiro     == <<"https://", "api.miro.com", "/v2/res">>
DownloadUrl == <<"https://", "api.miro.com", "/v2/documents/1">>

StartsWithHttp(u) == u # <<>> /\ u[1] \in {"http://", "https://"}
IncludesMiroApi(u) == \E i \in 1..Len(u) : u[i] = "api.miro.com"

\* The well-known fields, in the order pushIfString is called on them.
WellKnownPaths ==
  << <<"url">>, <<"downloadUrl">>, <<"download_url">>, <<"documentUrl">>,
     <<"document_url">>, <<"href">>, <<"location">>,
     <<"data", "url">>, <<"data", "downloadUrl">>, <<"data", "download_url">>,
     <<"data", "documentUrl">>, <<"data", "document_url">>, <<"data", "href">>,
     <<"links", "download">>, <<"links", "file">>, <<"links", "self">>,
     <<"_links", "download">>, <<"_links", "file">>, <<"_links", "self">> >>

RECURSIVE WellKnownPass(_, _)
WellKnownPass(meta, k) ==
  IF k > Len(WellKnownPaths) THEN <<>>
  ELSE LET hits == SelectSeq(meta, LAMBDA e : e.path = WellKnownPaths[k])
       IN (IF hits # <<>> /\ Trim(hits[1].val) # <<>>
           THEN << Trim(hits[1].val) >> ELSE <<>>)
          \o WellKnownPass(meta, k + 1)

RECURSIVE GenericPass(_)
GenericPass(meta) ==
  IF meta = <<>> THEN <<>>
  ELSE (IF StartsWithHttp(meta[1].val) THEN << meta[1].val >> ELSE <<>>)
       \o GenericPass(Tail(meta))

extractUrlCandidatesFromJson(meta) ==
  Dedup(WellKnownPass(meta, 1) \o GenericPass(meta))

SortCandidates_Unsorted(c) == c

\* candidates.slice().sort(...): a stable sort that puts api.miro.com last.
SortCandidates(c) ==
  SelectSeq(c, LAMBDA u : ~IncludesMiroApi(u))
    \o SelectSeq(c, LAMBDA u : IncludesMiroApi(u))

(***************************************************************************)
(* HTTP responses of the download collaborators.                           *)
(***************************************************************************)
CtIncludesPdf(ct)  == ct = "application/pdf"
CtIncludesJson(ct) == ct = "application/json"

Resp(net, ok, ct, body, meta) ==
  [net |-> net, ok |-> ok, ct |-> ct, body |-> body, meta |-> meta]

\* 2xx, content-type application/pdf, a JSON error text as body.
RespPdfLie  == Resp(FALSE, TRUE, "application/pdf", ErrJsonBody, <<>>)
RespJson(m) == Resp(FALSE, TRUE, "application/json", ErrJsonBody, m)

\* A network error, a non-2xx status, a true PDF, the lying content-type, a
\* mislabelled PDF, a short non-PDF body, and a response without content-type.
BinaryResponses ==
  { Resp(TRUE, FALSE, "", <<>>, <<>>),
    Resp(FALSE, FALSE, "application/json", ErrJsonBody, <<>>),
    Resp(FALSE, TRUE, "application/pdf", (<<37, 80, 68, 70, 45>>), <<>>),
    RespPdfLie,
    Resp(FALSE, TRUE, "application/octet-stream", <<37, 80, 68, 70>>, <<>>),
    Resp(FALSE, TRUE, "application/octet-stream", <<37, 80, 68>>, <<>>),
    Resp(FALSE, TRUE, "", ErrJsonBody, <<>>) }

CandResponses  == BinaryResponses \cup {RespJson(<<>>)}

(***************************************************************************)
(* miroDownloadBinary.  Two variants exist in the repository:              *)
(*   "lenient": api/analyze-selected-pdf.js and its copies,                *)
(*   "strict" : unnamed/part_000 (re-checks the magic on every branch and  *)
(*              refetches the original URL without credential).            *)
(***************************************************************************)
DlIdle ==
  [variant |-> "none", pc |-> "idle", cands |-> <<>>, idx |-> 0, log |-> <<>>,
   result |-> "none", bytes |-> <<>>, err |-> "", lastErr |-> ""]

DlStart(v) == [DlIdle EXCEPT !.variant = v, !.pc = "step1"]

Fetched(d, url, auth, r) ==
  [d EXCEPT !.log = Append(@, [url |-> url, auth |-> auth, resp |-> r])]

DlReturn(d, bytes) ==
  [d EXCEPT !.pc = "done", !.result = "ok", !.bytes = bytes]

DlThrow(d, msg) ==
  [d EXCEPT !.pc = "done", !.result = "error", !.err = msg]

\* Step 1, content-type declares a PDF: verify the magic bytes.
Step1DeclaredPdf_TrustHeader(d, r) == DlReturn(d, r.body)

Step1DeclaredPdf(d, r) ==
  IF ~isPdfMagic(r.body) THEN DlThrow(d, "step1 content-type pdf, no magic")
  ELSE DlReturn(d, r.body)

\* Step 1, JSON metadata: extract and order the candidates.
Step1Json(d, r) ==
  LET candidates == extractUrlCandidatesFromJson(r.meta)
  IN IF candidates = <<>> THEN DlThrow(d, "step1 json, no candidates")
     ELSE [d EXCEPT !.pc = "cand_auth", !.cands = SortCandidates(candidates),
                    !.idx = 1]

\* Step 1, neither declared PDF nor JSON.
Step1Other(d, r) ==
  IF isPdfMagic(r.body) THEN DlReturn(d, r.body)
  ELSE IF d.variant = "strict" THEN [d EXCEPT !.pc = "last_resort"]
  ELSE DlThrow(d, "download did not yield a pdf")

DlStep1Outcome_RetryOnStatus(d, r) ==
  IF r.net THEN DlThrow(d, "network")
  ELSE IF ~r.ok THEN [d EXCEPT !.pc = "last_resort"]
  ELSE IF CtIncludesPdf(r.ct) THEN Step1DeclaredPdf(d, r)
  ELSE IF CtIncludesJson(r.ct) THEN Step1Json(d, r)
  ELSE Step1Other(d, r)

DlStep1Outcome(d, r) ==
  IF r.net THEN DlThrow(d, "network")
  ELSE IF ~r.ok THEN DlThrow(d, "step1 failed status")
  ELSE IF CtIncludesPdf(r.ct) THEN Step1DeclaredPdf(d, r)
  ELSE IF CtIncludesJson(r.ct) THEN Step1Json(d, r)
  ELSE Step1Other(d, r)

\* One candidate fetch (with or without credential): TRUE when the bytes
\* are returned as the result, FALSE when the attempt is recorded in lastErr.
CandidateAccepted(variant, r) ==
  /\ ~r.net
  /\ r.ok
  /\ (CtIncludesPdf(r.ct) \/ isPdfMagic(r.body))
  /\ (variant = "strict" => isPdfMagic(r.body))

CandidateError(r, step) ==
  IF r.net THEN "network"
  ELSE IF ~r.ok THEN step \o " failed status"
  ELSE IF CtIncludesPdf(r.ct) \/ isPdfMagic(r.body) THEN step \o " no magic"
  ELSE step \o " not pdf"

\* After the without-credential attempt failed: next candidate or give up.
\* The error thrown on exhaustion quotes the message of lastErr.
NextCandidate(d) ==
  IF d.idx < Len(d.cands) THEN [d EXCEPT !.pc = "cand_auth", !.idx = @ + 1]
  ELSE DlThrow(d, "could not resolve pdf from json. Last error: " \o d.lastErr)

\* The first fetch.  A JSON answer is a parsed object, given by its
\* string-valued members in key order, each with its path (one or two
\* keys); <<>> stands for null / an object without string members.
DlStep1 ==
  /\ dl.pc = "step1"
  /\ \E r \in (BinaryResponses \cup {RespJson(m) : m \in ({ (<< [path |-> <<"data", "documentUrl">>, val |-> UrlCdn] >>),
            << [path |-> <<"url">>, val |-> UrlMiro],
               [path |-> <<"data", "documentUrl">>, val |-> UrlCdn] >>,
            << [path |-> <<"links", "self">>, val |-> UrlMiro],
               [path |-> <<"links", "download">>, val |-> <<"http://", "files.example", "/y">>],
               [path |-> <<"mirror">>, val |-> UrlCdn] >>,
            << [path |-> <<"href">>, val |-> <<"/resources/1">>] >>,
            << [path |-> <<"url">>, val |-> <<" ", "https://", "cdn.example", "/x", " ">>] >>,
            << [path |-> <<"message">>, val |-> <<"not ready">>] >>,
            << >> })}) :
       dl' = DlStep1Outcome(Fetched(dl, DownloadUrl, TRUE, r), r)
  /\ UNCHANGED <<fd, rc, mh, hd, pf, st, cc>>

DlCandAuth ==
  /\ dl.pc = "cand_auth"
  /\ \E r \in CandResponses :
       LET d == Fetched(dl, dl.cands[dl.idx], TRUE, r)
       IN dl' = IF CandidateAccepted(dl.variant, r) THEN DlReturn(d, r.body)
                ELSE [d EXCEPT !.pc = "cand_noauth",
                               !.lastErr = CandidateError(r, "step2/auth")]
  /\ UNCHANGED <<fd, rc, mh, hd, pf, st, cc>>

DlCandNoAuth ==
  /\ dl.pc = "cand_noauth"
  /\ \E r \in CandResponses :
       LET d == Fetched(dl, dl.cands[dl.idx], FALSE, r)
       IN dl' = IF CandidateAccepted(dl.variant, r) THEN DlReturn(d, r.body)
                ELSE NextCandidate(
                       [d EXCEPT !.lastErr = CandidateError(r, "step2/noauth")])
  /\ UNCHANGED <<fd, rc, mh, hd, pf, st, cc>>

\* Last resort of the strict variant: the original URL without credential.
LastResortOutcome(d, r) ==
  IF r.net THEN DlThrow(d, "network")
  ELSE IF r.ok /\ (CtIncludesPdf(r.ct) \/ isPdfMagic(r.body))
  THEN (IF ~isPdfMagic(r.body) THEN DlThrow(d, "step3/noauth no magic")
        ELSE DlReturn(d, r.body))
  ELSE DlThrow(d, "download did not yield a pdf")

DlLastResort ==
  /\ dl.pc = "last_resort"
  /\ \E r \in CandResponses :
       dl' = LastResortOutcome(Fetched(dl, DownloadUrl, FALSE, r), r)
  /\ UNCHANGED <<fd, rc, mh, hd, pf, st, cc>>

(***************************************************************************)
(* Document-item locator: findDocFormatByTitle (unnamed/part_001).         *)
(*                                                                         *)
(* A content string is a sequence of lines; a line is a record             *)
(*   h    : 1 when the line starts with a markdown heading marker "# ",    *)
(*   tag  : "none", "p" or "h1" (the line is wrapped in that HTML tag),    *)
(*   text : the visible text of the line ("" when there is none).          *)
(* A title is a token string.                                              *)
(***************************************************************************)
Wanted == <<"T">>

NoDim == -1   \* a width or height that is absent (not a finite number)

Line(h, tag, text) == [h |-> h, tag |-> tag, text |-> text]

\* line.trim() is the empty string
RawBlank(l) == l.h = 0 /\ l.tag = "none" /\ l.text = ""

\* stripHtmlTags(line).trim(), as tokens
VisibleTokens(l) ==
  (IF l.h > 0 THEN <<"#">> ELSE <<>>) \o (IF l.text # "" THEN <<l.text>> ELSE <<>>)

extractItemTitle(obj) == Trim(obj.title)

extractDocContent(details) ==
  IF \E k \in 1..Len(details.content) : ~RawBlank(details.content[k])
  THEN details.content ELSE <<>>

\* The lines that survive strip-tags, trim and filter(Boolean).
VisibleLines(content) == SelectSeq(content, LAMBDA l : VisibleTokens(l) # <<>>)

isEffectivelyEmptyDoc(details, wanted) ==
  LET content == extractDocContent(details)
      lines   == VisibleLines(content)
  IN IF content = <<>> THEN FALSE
     ELSE \/ lines = <<>>
          \/ Len(lines) = 1 /\ VisibleTokens(lines[1]) = wanted
          \/ Len(lines) = 1 /\ lines[1].text # "" /\ <<lines[1].text>> = wanted

extractDocFormatTitleFromContent(details) ==
  LET t       == extractItemTitle(details)
      content == extractDocContent(details)
      nonBlank == SelectSeq(content, LAMBDA l : ~RawBlank(l))
  IN IF t # <<>> THEN t
     ELSE IF nonBlank = <<>> THEN <<>>
     ELSE LET l == nonBlank[1]
          IN IF l.tag = "none" /\ l.h > 0 /\ l.text # "" THEN <<l.text>>
             ELSE IF l.tag = "h1" /\ VisibleTokens(l) # <<>> THEN VisibleTokens(l)
             ELSE VisibleTokens(l)

geometryArea(it) ==
  LET w == IF it.w # NoDim THEN it.w ELSE 0
      h == IF it.h # NoDim THEN it.h ELSE 0
  IN w * h

\* Board items: the list entry (type, title, geometry) and the content the
\* details endpoint /docs/{id} serves for it.
Item(type, title, content, w, h) ==
  [type |-> type, title |-> title, content |-> content, w |-> w, h |-> h]

MaxItems == 3
PageCap  == 100

\* Boards of up to MaxItems items drawn from: an empty titled item, a titled
\* item with only tags, a heading-only item, a populated item titled by its
\* heading, a small titled item, a titled item without width, an item with
\* another title, and an item of another type.
Boards == UNION {[1..n -> ({ Item("doc_format", <<"T">>, <<>>, 10, 10),
            Item("doc_format", <<"T">>, <<Line(0, "p", "")>>, 10, 10),
            Item("doc_format", <<>>, <<Line(1, "none", "T")>>, 10, 10),
            Item("doc_format", <<>>, <<Line(1, "none", "T"), Line(0, "none", "X")>>, 10, 20),
            Item("doc_format", <<" ", "T">>, <<Line(0, "p", "X")>>, 10, 10),
            Item("doc_format", <<"T">>, <<Line(0, "h1", "X")>>, NoDim, 20),
            Item("doc_format", <<>>, <<Line(1, "none", "X")>>, 30, 30),
            Item("frame", <<"T">>, <<>>, 30, 30) })] : n \in 0..MaxItems}

\* The details object served for a list item (the list's id, the content).
DetailsOf(it) == [title |-> <<>>, content |-> it.content]

FdIdle ==
  [pc |-> "idle", board |-> <<>>, pageSize |-> 1, cursor |-> 0, i |-> 0,
   pos |-> 0, pageEnd |-> 0, best |-> 0, bestArea |-> -1, result |-> 0,
   byPlaceholder |-> FALSE, failed |-> {}, scanned |-> {}, lists |-> 0,
   stuck |-> FALSE]

FdStart(b, ps) == [FdIdle EXCEPT !.pc = "list", !.board = b, !.pageSize = ps]

AfterPage_ReturnsLast(f) ==
  IF f.pageEnd >= Len(f.board) \/ f.i + 1 >= PageCap
  THEN [f EXCEPT !.pc = "done", !.result = IF f.best # 0 THEN f.best ELSE f.pageEnd]
  ELSE [f EXCEPT !.pc = "list", !.cursor = f.pageEnd, !.i = @ + 1]

AfterPage_CapOffByOne(f) ==
  IF ~f.stuck /\ f.pageEnd >= Len(f.board)
  THEN [f EXCEPT !.pc = "done", !.result = f.best]
  ELSE IF f.i >= PageCap THEN [f EXCEPT !.pc = "done", !.result = f.best]
  ELSE [f EXCEPT !.pc = "list", !.i = @ + 1,
                 !.cursor = IF f.pageEnd < Len(f.board) THEN f.pageEnd ELSE @]

\* After the items of a page: extractNextCursor and the loop head.
\* A sound paginator sends a next cursor while items remain; a stuck one
\* (f.stuck) sends one with every page, the cursor of the last page again
\* once the items are used up.
AfterPage(f) ==
  IF ~f.stuck /\ f.pageEnd >= Len(f.board)
  THEN [f EXCEPT !.pc = "done", !.result = f.best]
  ELSE IF f.i + 1 >= PageCap THEN [f EXCEPT !.pc = "done", !.result = f.best]
  ELSE [f EXCEPT !.pc = "list", !.i = @ + 1,
                 !.cursor = IF f.pageEnd < Len(f.board) THEN f.pageEnd ELSE @]

NextItem(f) ==
  IF f.pos < f.pageEnd THEN [f EXCEPT !.pos = @ + 1] ELSE AfterPage(f)

\* GET /items?type=doc_format&limit=..&cursor=..
FdListPage ==
  /\ fd.pc = "list"
  /\ \E ok \in BOOLEAN :
       LET end == IF fd.cursor + fd.pageSize < Len(fd.board)
                  THEN fd.cursor + fd.pageSize ELSE Len(fd.board)
           f   == [fd EXCEPT !.lists = @ + 1, !.pageEnd = end]
       IN fd' = IF ~ok THEN [f EXCEPT !.pc = "threw"]
                ELSE IF end = fd.cursor THEN AfterPage(f)
                ELSE [f EXCEPT !.pc = "item", !.pos = fd.cursor + 1]
  /\ UNCHANGED <<dl, rc, mh, hd, pf, st, cc>>

\* Is the item a title match, given whether its details could be fetched?
IsMatch(it, detailsOk) ==
  \/ extractItemTitle(it) = Wanted
  \/ detailsOk /\ extractDocFormatTitleFromContent(DetailsOf(it)) = Wanted

PrefersPlaceholder_Never(it, detailsOk) == FALSE

PrefersPlaceholder(it, detailsOk) ==
  detailsOk /\ isEffectivelyEmptyDoc(DetailsOf(it), Wanted)

BetterThanBest_LastWins(f, area) == TRUE

BetterThanBest(f, area) == f.best = 0 \/ area > f.bestArea

\* One iteration of the loop over the items of the page, including the
\* GET /docs/{id} request it makes.
FdItem ==
  /\ fd.pc = "item"
  /\ LET it == fd.board[fd.pos]
     IN IF it.type # "doc_format" THEN fd' = NextItem(fd)
        ELSE \E detailsOk \in BOOLEAN :
          LET f == [fd EXCEPT !.scanned = @ \cup {fd.pos},
                              !.failed = IF detailsOk THEN @ ELSE @ \cup {fd.pos}]
              area == geometryArea(it)
          IN fd' =
               IF ~IsMatch(it, detailsOk) THEN NextItem(f)
               ELSE IF PrefersPlaceholder(it, detailsOk)
               THEN [f EXCEPT !.pc = "done", !.result = fd.pos,
                              !.byPlaceholder = TRUE]
               ELSE IF BetterThanBest(f, area)
               THEN NextItem([f EXCEPT !.best = fd.pos, !.bestArea = area])
               ELSE NextItem(f)
  /\ UNCHANGED <<dl, rc, mh, hd, pf, st, cc>>

(***************************************************************************)
(* Recreate-and-replace write path of the analyze handler.                 *)
(* Two variants: "api" (api/analyze-selected-pdf.js) and "p1" (the first   *)
(* handler of unnamed/part_001: scaled geometry, second delete endpoint).  *)
(*                                                                         *)
(* Markdown is a sequence of lines ("" is a blank line).                   *)
(***************************************************************************)
docMarkdownOf(answer) == <<"# OKR Catalog - Strategy PDF", "">> \o answer
docMarkdownWithTitleHeadingOf(answer) ==
  <<"# Objectives and Key Results Catalog", "">> \o docMarkdownOf(answer)

\* toSimpleHtml: paragraphs are separated by blank lines, the lines of a
\* paragraph are joined with <br/>.  The result is the sequence of paragraphs.
RECURSIVE SplitParagraphs(_, _)
SplitParagraphs(lines, cur) ==
  IF lines = <<>> THEN (IF cur = <<>> THEN <<>> ELSE <<cur>>)
  ELSE IF lines[1] = ""
       THEN (IF cur = <<>> THEN <<>> ELSE <<cur>>) \o SplitParagraphs(Tail(lines), <<>>)
       ELSE SplitParagraphs(Tail(lines), Append(cur, lines[1]))

MarkdownContent(lines) == [fmt |-> "markdown", paras |-> <<lines>>]
toSimpleHtml(lines)    == [fmt |-> "html", paras |-> SplitParagraphs(lines, <<>>)]
TextContent(lines)     == [fmt |-> "text", paras |-> <<lines>>]
\* The located target document: position (hasPos: x and y are numbers),
\* origin ("" when absent), geometry (NoDim: absent), parent id (0: none),
\* and its current content (markdown lines; set by the initial state).
Target(hasPos, x, y, origin, hasGeom, w, h, parent) ==
  [id |-> 1, hasPos |-> hasPos, x |-> x, y |-> y, origin |-> origin,
   hasGeom |-> hasGeom, w |-> w, h |-> h, parent |-> parent, content |-> <<>>]

SCALE_FACTOR == 3

Pos(x, y, origin) == [x |-> x, y |-> y, origin |-> origin]

\* The fallback position (outX, outY) is (7, 3) in every run of the model.
targetPosOf(t) ==
  IF t.hasPos THEN Pos(t.x, t.y, t.origin) ELSE Pos(7, 3, "center")

createPosOf(t) ==
  LET tp == targetPosOf(t)
  IN Pos(tp.x, tp.y, IF tp.origin # "" THEN tp.origin ELSE "center")

scaled(d) == IF d # NoDim THEN d * SCALE_FACTOR ELSE NoDim

\* part_001 only: keep the top-left corner fixed while scaling.
createPosScaledOf(t) ==
  LET cp == createPosOf(t)
      w  == IF t.hasGeom THEN t.w ELSE NoDim
      h  == IF t.hasGeom THEN t.h ELSE NoDim
  IN IF cp.origin = "center"
     THEN Pos(IF w # NoDim THEN cp.x + ((scaled(w) - w) \div 2) ELSE cp.x,
              IF h # NoDim THEN cp.y + ((scaled(h) - h) \div 2) ELSE cp.y,
              cp.origin)
     ELSE cp

Variant(ct, withHeading, includeTitle, includeGeometry) ==
  [contentType |-> ct, withHeading |-> withHeading,
   includeTitle |-> includeTitle, includeGeometry |-> includeGeometry]

createVariants_HtmlFirst ==
  << Variant("html", FALSE, TRUE, TRUE),
     Variant("html", FALSE, TRUE, FALSE),
     Variant("html", TRUE, FALSE, TRUE),
     Variant("html", TRUE, FALSE, FALSE),
     Variant("markdown", FALSE, TRUE, TRUE),
     Variant("markdown", FALSE, TRUE, FALSE),
     Variant("markdown", TRUE, FALSE, TRUE),
     Variant("markdown", TRUE, FALSE, FALSE) >>

createVariants ==
  << Variant("markdown", FALSE, TRUE, TRUE),
     Variant("markdown", FALSE, TRUE, FALSE),
     Variant("markdown", TRUE, FALSE, TRUE),
     Variant("markdown", TRUE, FALSE, FALSE),
     Variant("html", FALSE, TRUE, TRUE),
     Variant("html", FALSE, TRUE, FALSE),
     Variant("html", TRUE, FALSE, TRUE),
     Variant("html", TRUE, FALSE, FALSE) >>

VariantContent(v, answer) ==
  LET md == IF v.withHeading THEN docMarkdownWithTitleHeadingOf(answer)
            ELSE docMarkdownOf(answer)
  IN IF v.contentType = "html" THEN toSimpleHtml(md) ELSE MarkdownContent(md)

Geometry(w, h) == [w |-> w, h |-> h]
NoGeometry == Geometry(NoDim, NoDim)

PayloadGeometry(variant, v, t) ==
  IF ~(v.includeGeometry /\ t.hasGeom) THEN NoGeometry
  ELSE IF variant = "api" THEN Geometry(t.w, t.h)
  ELSE IF t.w # NoDim THEN Geometry(scaled(t.w), NoDim)
  ELSE Geometry(NoDim, scaled(t.h))

Payload(ct, content, title, position, geometry, parent) ==
  [contentType |-> ct, content |-> content, title |-> title,
   position |-> position, geometry |-> geometry, parent |-> parent]

NoPayload == Payload("", ([fmt |-> "", paras |-> <<>>]), FALSE, Pos(0, 0, ""), NoGeometry, 0)

CreatePayload(r, v) ==
  Payload(v.contentType, VariantContent(v, r.answer), v.includeTitle,
          IF r.variant = "p1" /\ v.includeGeometry
          THEN createPosScaledOf(r.target) ELSE createPosOf(r.target),
          PayloadGeometry(r.variant, v, r.target), 0)

TextPayload_WholeDocument(r) ==
  Payload("", TextContent(docMarkdownOf(r.answer)), FALSE,
          createPosOf(r.target), NoGeometry, 0)

TextPayload(r) ==
  Payload("", TextContent(r.answer), FALSE, createPosOf(r.target), NoGeometry, 0)

RcIdle ==
  [variant |-> "none", pc |-> "idle", target |-> Target(FALSE, 0, 0, "", FALSE, NoDim, NoDim, 0),
   answer |-> <<>>, vi |-> 0, createdDocId |-> 0, createdTextId |-> 0,
   replacedDocId |-> 0, docCreateErrors |-> <<>>, reqs |-> <<>>,
   origExists |-> TRUE, status |-> 0, firstDeleteError |-> ""]

RcStartState(v, t, a) ==
  [RcIdle EXCEPT !.variant = v, !.pc = "start", !.target = t, !.answer = a]

Req(method, kind, target, payload, outcome) ==
  [method |-> method, kind |-> kind, target |-> target, payload |-> payload,
   outcome |-> outcome]

Sent(r, req) == [r EXCEPT !.reqs = Append(@, req)]

PushError(r, msg) == [r EXCEPT !.docCreateErrors = Append(@, msg)]


ShouldReparent_IgnoresParent(r) == r.createdDocId # 0

ShouldReparent(r) == r.createdDocId # 0 /\ r.target.parent # 0

ShouldDelete_Unconditional(r) == TRUE

ShouldDelete(r) == r.createdDocId # 0

ShouldCreateText(r) == r.createdDocId = 0

AfterDelete(r) ==
  IF ShouldCreateText(r) THEN [r EXCEPT !.pc = "text"] ELSE [r EXCEPT !.pc = "respond"]

AfterPatch(r) ==
  IF ShouldDelete(r)
  THEN [r EXCEPT !.pc = "delete", !.replacedDocId = r.target.id]
  ELSE AfterDelete(r)

AfterCreateLoop(r) ==
  IF ShouldReparent(r) THEN [r EXCEPT !.pc = "patch"] ELSE AfterPatch(r)

\* Steps 1-4 and findDocFormatByTitle, abstracted to their outcome: an early
\* error response, "target not found" (404), or the located target.
RcStart ==
  /\ rc.pc = "start"
  /\ \E pre \in {"early_error", "not_found", "found"} :
       rc' = IF pre = "early_error" THEN [rc EXCEPT !.pc = "done", !.status = 500]
             ELSE IF pre = "not_found" THEN [rc EXCEPT !.pc = "done", !.status = 404]
             ELSE [rc EXCEPT !.pc = "create", !.vi = 1]
  /\ UNCHANGED <<dl, fd, mh, hd, pf, st, cc>>

\* One iteration of the loop over createVariants: POST /docs.
RcCreate ==
  /\ rc.pc = "create"
  /\ \E out \in {"fail", "ok_id", "ok_noid"} :
       LET v == createVariants[rc.vi]
           r == Sent(rc, Req("POST", "docs", 0, CreatePayload(rc, v), out))
           s == IF out = "fail" THEN PushError(r, "Miro POST docs")
                ELSE IF out = "ok_id" THEN [r EXCEPT !.createdDocId = 100 + rc.vi]
                ELSE r
       IN rc' = IF s.createdDocId # 0 \/ rc.vi = Len(createVariants)
                THEN AfterCreateLoop(s)
                ELSE [s EXCEPT !.vi = @ + 1]
  /\ UNCHANGED <<dl, fd, mh, hd, pf, st, cc>>

\* PATCH /items/{createdDocId} with the parent of the original.
RcPatch ==
  /\ rc.pc = "patch"
  /\ \E ok \in BOOLEAN :
       LET r == Sent(rc, Req("PATCH", "items", rc.createdDocId,
                             [NoPayload EXCEPT !.parent = rc.target.parent],
                             IF ok THEN "ok" ELSE "fail"))
       IN rc' = AfterPatch(IF ok THEN r ELSE PushError(r, "Miro PATCH items"))
  /\ UNCHANGED <<dl, fd, mh, hd, pf, st, cc>>

\* DELETE /docs/{replacedDocId}.
RcDelete ==
  /\ rc.pc = "delete"
  /\ \E ok \in BOOLEAN :
       LET r == Sent(rc, Req("DELETE", "docs", rc.replacedDocId, NoPayload,
                             IF ok THEN "ok" ELSE "fail"))
       IN rc' = IF ok THEN AfterDelete([r EXCEPT !.origExists = FALSE])
                ELSE IF rc.variant = "p1"
                THEN [r EXCEPT !.pc = "delete2", !.firstDeleteError = "Miro DELETE docs"]
                ELSE AfterDelete(PushError(r, "Miro DELETE docs"))
  /\ UNCHANGED <<dl, fd, mh, hd, pf, st, cc>>

\* part_001 only: the generic DELETE /items/{replacedDocId} after the first failed.
RcDeleteItem ==
  /\ rc.pc = "delete2"
  /\ \E ok \in BOOLEAN :
       LET r == Sent(rc, Req("DELETE", "items", rc.replacedDocId, NoPayload,
                             IF ok THEN "ok" ELSE "fail"))
       IN rc' = IF ok THEN AfterDelete([r EXCEPT !.origExists = FALSE])
                ELSE AfterDelete(PushError(PushError(r, rc.firstDeleteError),
                                           "Miro DELETE items"))
  /\ UNCHANGED <<dl, fd, mh, hd, pf, st, cc>>

\* POST /texts: the plain-text fallback.
RcText ==
  /\ rc.pc = "text"
  /\ \E out \in {"fail", "ok_id", "ok_noid"} :
       LET r == Sent(rc, Req("POST", "texts", 0, TextPayload(rc), out))
       IN rc' = [r EXCEPT !.pc = "respond",
                          !.createdTextId = IF out = "ok_id" THEN 200 ELSE 0]
  /\ UNCHANGED <<dl, fd, mh, hd, pf, st, cc>>

\* res.status(200).json({ ok: true, ... })
RcRespond ==
  /\ rc.pc = "respond"
  /\ rc' = [rc EXCEPT !.pc = "done", !.status = 200]
  /\ UNCHANGED <<dl, fd, mh, hd, pf, st, cc>>

(***************************************************************************)
(* Versioned find/replace write path: the MCP handler of unnamed/part_001. *)
(*                                                                         *)
(* Markdown is a token string; the token "#" stands for the heading marker *)
(* "# ", "\n" for a line break, "nbsp" for U+00A0.                          *)
(***************************************************************************)
TARGET_DOC_TITLE == <<"T">>
titleLine        == <<"#">> \o TARGET_DOC_TITLE
docMarkdown      == <<"#", "cat", "\n", "\n", "ans">>

StartsWith(s, p) == Len(s) >= Len(p) /\ SubSeq(s, 1, Len(p)) = p

OccursAt(s, p, k) == k + Len(p) - 1 <= Len(s) /\ SubSeq(s, k, k + Len(p) - 1) = p

Occurs(s, p) == \E k \in 1..Len(s) : OccursAt(s, p, k)

\* Replace the occurrences of p in s (p non-empty) from position k on: all
\* of them, or only the first.
RECURSIVE ReplaceFrom(_, _, _, _, _)
ReplaceFrom(s, p, r, k, all) ==
  IF k > Len(s) THEN <<>>
  ELSE IF OccursAt(s, p, k)
       THEN r \o (IF all THEN ReplaceFrom(s, p, r, k + Len(p), all)
                  ELSE SubSeq(s, k + Len(p), Len(s)))
       ELSE <<s[k]>> \o ReplaceFrom(s, p, r, k + 1, all)

RECURSIVE SplitLines(_, _)
SplitLines(s, cur) ==
  IF s = <<>> THEN <<cur>>
  ELSE IF s[1] = "\n" THEN <<cur>> \o SplitLines(Tail(s), <<>>)
  ELSE SplitLines(Tail(s), Append(cur, s[1]))

NbspToSpace(s) == [k \in 1..Len(s) |-> IF s[k] = "nbsp" THEN " " ELSE s[k]]

\* line.replace(/^#{1,6}\s+/, "").trim()
StripHeading(line) == Trim(IF line # <<>> /\ line[1] = "#" THEN Tail(line) ELSE line)

isEffectivelyEmptyMarkdown(markdown, wantedTitle) ==
  LET md    == Trim(NbspToSpace(markdown))
      title == Trim(wantedTitle)
      lines == SelectSeq([k \in 1..Len(SplitLines(md, <<>>)) |->
                            Trim(SplitLines(md, <<>>)[k])],
                         LAMBDA l : l # <<>>)
  IN IF md = <<>> THEN TRUE
     ELSE IF title = <<>> THEN FALSE
     ELSE \/ md = title
          \/ md = <<"#">> \o title
          \/ Len(lines) = 1 /\ StripHeading(lines[1]) = title

(***************************************************************************)
(* Tool schemas and argument construction.                                 *)
(***************************************************************************)
BoardAliases      == <<"board_id", "boardId", "board">>
DocAliases        == <<"doc_id", "docId", "document_id", "documentId", "id">>
FindAliases       == <<"find", "search", "find_text", "findText", "search_text",
                       "from", "match">>
ReplaceAliases    == <<"replace", "replacement", "replace_text", "replaceText", "to">>
ReplaceAllAliases == <<"replace_all", "replaceAll", "all_occurrences",
                       "allOccurrences", "occurrence", "occurrences">>
VersionAliases    == <<"version", "doc_version", "docVersion", "revision">>

NoVersion == -1   \* null / undefined

\* The first alias of the list that the schema declares, as a list of at
\* most one key (the if / else-if chains of buildDocUpdateArgs).
FirstDeclared(props, aliases) ==
  LET hits == SelectSeq(aliases, LAMBDA a : a \in props)
  IN IF hits = <<>> THEN <<>> ELSE <<hits[1]>>

Arg(k, v) == [k |-> k, v |-> v]

ArgsFor(keys, v) == [i \in 1..Len(keys) |-> Arg(keys[i], v)]

ReplaceAllValue(key, replaceAll) ==
  IF key \in {"occurrence", "occurrences"}
  THEN (IF replaceAll THEN "all" ELSE "single")
  ELSE (IF replaceAll THEN "true" ELSE "false")

VersionArgs_Omitted(props, version) == <<>>

VersionArgs(props, version) ==
  IF version # NoVersion THEN ArgsFor(FirstDeclared(props, VersionAliases), version)
  ELSE <<>>

buildDocUpdateArgs(props, boardId, docId, findText, replaceText, replaceAll, version) ==
  LET raKeys == FirstDeclared(props, ReplaceAllAliases)
  IN ArgsFor(FirstDeclared(props, BoardAliases), boardId)
     \o ArgsFor(FirstDeclared(props, DocAliases), docId)
     \o ArgsFor(FirstDeclared(props, FindAliases), findText)
     \o ArgsFor(FirstDeclared(props, ReplaceAliases), replaceText)
     \o [i \in 1..Len(raKeys) |-> Arg(raKeys[i], ReplaceAllValue(raKeys[i], replaceAll))]
     \o VersionArgs(props, version)
     \o (IF props = {}
         THEN << Arg("board_id", boardId), Arg("doc_id", docId),
                 Arg("find", findText), Arg("replace", replaceText),
                 Arg("replace_all", ReplaceAllValue("replace_all", replaceAll)) >>
              \o (IF version # NoVersion THEN <<Arg("version", version)>> ELSE <<>>)
         ELSE <<>>)

\* How the server reads an argument list: the value under any of the keys.
HasArg(args, keys) ==
  \E i \in 1..Len(args) : \E j \in 1..Len(keys) : args[i].k = keys[j]

ArgValue(args, keys) ==
  LET hits == SelectSeq(args, LAMBDA a : \E j \in 1..Len(keys) : a.k = keys[j])
  IN hits[1].v

(***************************************************************************)
(* doc_get: the response forms parseDocGetCall accepts.                    *)
(***************************************************************************)
DocGetResponse(form, md, hasVersion, version) ==
  [form |-> form, md |-> md, hasVersion |-> hasVersion, version |-> version]

\* [threw, markdown, version]
parseDocGetCall(resp) ==
  IF resp.form = "rpc_error"
  THEN [threw |-> TRUE, markdown |-> <<>>, version |-> NoVersion]
  ELSE IF resp.form \in {"structured", "text_json"}
  THEN [threw |-> FALSE, markdown |-> resp.md,
        version |-> IF resp.hasVersion THEN resp.version ELSE NoVersion]
  ELSE IF resp.form = "text_raw"
  THEN [threw |-> FALSE, markdown |-> resp.md, version |-> NoVersion]
  ELSE [threw |-> FALSE, markdown |-> <<>>, version |-> NoVersion]

(***************************************************************************)
(* doc_update: the response forms and parseDocUpdateCall.                  *)
(*   "result"     : a JSON-RPC result (CallToolResult) of a tool that ran, *)
(*   "tool_error" : a JSON-RPC result whose CallToolResult has isError set,*)
(*   "rpc_error"  : a JSON-RPC error object,                               *)
(*   "http_error" : a non-2xx HTTP status (mcpPost throws).                *)
(***************************************************************************)
\* TRUE when the call is taken as successful (no exception).
parseDocUpdateCall(form) == form \notin {"rpc_error", "http_error"}

Attempt(ok, reason) == [ok |-> ok, reason |-> reason]

Candidate(find, replace, reason) == [find |-> find, replace |-> replace, reason |-> reason]

desiredMarkdownOf(currentMarkdown) ==
  IF Trim(currentMarkdown) = <<>> \/ StartsWith(Trim(currentMarkdown), titleLine)
  THEN titleLine \o <<"\n", "\n">> \o docMarkdown
  ELSE docMarkdown

candidatesOf_LooseFirst(currentMarkdown) ==
  LET desired == desiredMarkdownOf(currentMarkdown)
  IN (IF isEffectivelyEmptyMarkdown(currentMarkdown, TARGET_DOC_TITLE)
      THEN <<Candidate(TARGET_DOC_TITLE, desired, "replace-plain-title-only"),
             Candidate(titleLine, desired, "replace-title-heading-only")>>
      ELSE <<>>)
     \o (IF currentMarkdown # <<>> /\ currentMarkdown # desired
         THEN <<Candidate(currentMarkdown, desired, "replace-entire-doc-exact")>>
         ELSE <<>>)

candidatesOf_PlaceholderOnly(currentMarkdown) ==
  IF isEffectivelyEmptyMarkdown(currentMarkdown, TARGET_DOC_TITLE)
  THEN <<Candidate(titleLine, desiredMarkdownOf(currentMarkdown),
                   "replace-title-heading-only")>>
  ELSE <<>>

candidatesOf(currentMarkdown) ==
  LET desired == desiredMarkdownOf(currentMarkdown)
  IN (IF currentMarkdown # <<>> /\ currentMarkdown # desired
      THEN <<Candidate(currentMarkdown, desired, "replace-entire-doc-exact")>>
      ELSE <<>>)
     \o (IF isEffectivelyEmptyMarkdown(currentMarkdown, TARGET_DOC_TITLE)
         THEN (IF Trim(currentMarkdown) # <<>> /\ Trim(currentMarkdown) # currentMarkdown
               THEN <<Candidate(Trim(currentMarkdown), desired, "replace-entire-doc-trim")>>
               ELSE <<>>)
              \o <<Candidate(titleLine, desired, "replace-title-heading-only"),
                   Candidate(TARGET_DOC_TITLE, desired, "replace-plain-title-only")>>
         ELSE <<>>)

MaxEdits == 1

MhIdle ==
  [pc |-> "idle", schema |-> {}, srvContent |-> <<>>, srvVersion |-> 0,
   edits |-> 0, editedAfterGet |-> FALSE, staleApplied |-> FALSE,
   currentMarkdown |-> <<>>, currentVersion |-> NoVersion, desired |-> <<>>,
   candidates |-> <<>>, ci |-> 0, updated |-> FALSE, updateAttempts |-> <<>>,
   sentArgs |-> <<>>, srvLog |-> <<>>, rest |-> <<>>, mcpCalls |-> <<>>,
   status |-> 0, respUpdated |-> FALSE, respAttempts |-> <<>>, respReason |-> "",
   issuedSession |-> 0, sessionId |-> 0, mcpHeaders |-> <<>>]

MhStartState(schema, doc) ==
  [MhIdle EXCEPT !.pc = "start", !.schema = schema, !.srvContent = doc,
                 !.srvVersion = 1]

MhRespondError(m, status) ==
  [m EXCEPT !.pc = "done", !.status = status]

Called_NoSessionHeader(m, name) ==
  [m EXCEPT !.mcpCalls = Append(@, name), !.mcpHeaders = Append(@, 0)]

\* mcpPost: one JSON-RPC request; mcpHeaders records its Mcp-Session-Id
\* header (0 when the header is not set).
Called(m, name) ==
  [m EXCEPT !.mcpCalls = Append(@, name), !.mcpHeaders = Append(@, m.sessionId)]

\* Steps 1-4 (REST reads, download, LLM calls) and findDocFormatByTitle,
\* abstracted to their outcome; every whiteboard request they make is a GET.
MhStart ==
  /\ mh.pc = "start"
  /\ \E pre \in {"early_error", "not_found", "found"} :
       LET m == [mh EXCEPT !.rest = <<"GET", "GET", "GET", "GET">>]
       IN mh' = IF pre = "early_error" THEN MhRespondError(m, 500)
                ELSE IF pre = "not_found" THEN MhRespondError(m, 404)
                ELSE [m EXCEPT !.pc = "session"]
  /\ UNCHANGED <<dl, fd, rc, hd, pf, st, cc>>

\* mcpStartSession and tools/list, then the lookup of doc_get and doc_update.
\* The initialize response carries the session identifier sid (0: none).
MhSession ==
  /\ mh.pc = "session"
  /\ \E out \in {"init_fail", "fail", "tools_missing", "ok"}, sid \in {0, 7} :
       LET i == Called(mh, "initialize")
           s == [i EXCEPT !.issuedSession = sid, !.sessionId = sid]
           m == Called(s, "tools/list")
       IN mh' = IF out = "init_fail" THEN MhRespondError(i, 500)
                ELSE IF out = "ok" THEN [m EXCEPT !.pc = "get"]
                ELSE MhRespondError(m, 500)
  /\ UNCHANGED <<dl, fd, rc, hd, pf, st, cc>>

\* The response written when every doc_update attempt failed.
OnUpdateExhausted_TextFallback(m) ==
  [m EXCEPT !.pc = "done", !.status = 200, !.rest = Append(@, "POST")]

OnUpdateExhausted(m) ==
  [m EXCEPT !.pc = "done", !.status = 500, !.respAttempts = m.updateAttempts]

OnUpdated(m) ==
  [m EXCEPT !.pc = "done", !.status = 200, !.respUpdated = TRUE,
            !.respAttempts = m.updateAttempts]

\* The loop head after attempt ci: break on success, else the next candidate
\* with a non-empty find, else leave the loop.
RECURSIVE NextAttempt(_, _)
NextAttempt(m, k) ==
  IF m.updated THEN OnUpdated(m)
  ELSE IF k > Len(m.candidates) THEN OnUpdateExhausted(m)
  ELSE IF m.candidates[k].find = <<>> THEN NextAttempt(m, k + 1)
  ELSE [m EXCEPT !.pc = "update", !.ci = k]

\* tools/call doc_get, parseDocGetCall, and the construction of the candidates.
MhDocGet ==
  /\ mh.pc = "get"
  /\ \E form \in ({"structured", "text_json", "text_raw", "no_content", "rpc_error"}) \cup {"http_error"}, hasVersion \in BOOLEAN :
       LET m    == Called(mh, "doc_get")
           info == parseDocGetCall(
                     DocGetResponse(form, mh.srvContent, hasVersion, mh.srvVersion))
       IN mh' =
            IF form = "http_error" \/ info.threw THEN MhRespondError(m, 500)
            ELSE LET cands == candidatesOf(info.markdown)
                     n == [m EXCEPT !.currentMarkdown = info.markdown,
                                    !.currentVersion = info.version,
                                    !.desired = desiredMarkdownOf(info.markdown),
                                    !.candidates = cands]
                 IN IF cands = <<>>
                    THEN [n EXCEPT !.pc = "done", !.status = 200,
                                   !.respReason = "already-up-to-date-or-empty-candidates"]
                    ELSE NextAttempt(n, 1)
  /\ UNCHANGED <<dl, fd, rc, hd, pf, st, cc>>

\* Another writer edits the target document while the request is running.
MhExternalEdit ==
  /\ mh.pc = "update"
  /\ mh.edits < MaxEdits
  /\ \E newContent \in {mh.srvContent \o <<"\n", "theirs">>, <<"theirs">>} :
       mh' = [mh EXCEPT !.srvContent = newContent, !.srvVersion = @ + 1,
                        !.edits = @ + 1, !.editedAfterGet = TRUE]
  /\ UNCHANGED <<dl, fd, rc, hd, pf, st, cc>>

\* The document service: what a doc_update call does with its arguments.
ServerOutcome(m, args) ==
  IF ~(HasArg(args, FindAliases) /\ HasArg(args, ReplaceAliases))
  THEN "invalid"
  ELSE IF HasArg(args, VersionAliases) /\ ArgValue(args, VersionAliases) # m.srvVersion
  THEN "conflict"
  ELSE IF ~Occurs(m.srvContent, ArgValue(args, FindAliases)) THEN "not_found"
  ELSE "applied"

\* One iteration of the loop over the candidates: tools/call doc_update.
MhDocUpdate ==
  /\ mh.pc = "update"
  /\ LET c    == mh.candidates[mh.ci]
         args == buildDocUpdateArgs(mh.schema, "board", "doc", c.find, c.replace,
                                    TRUE, mh.currentVersion)
         out  == ServerOutcome(mh, args)
         sent == [Called(mh, "doc_update") EXCEPT !.sentArgs = Append(@, args)]
     IN \E form \in (IF out = "applied" THEN {"result"} ELSE ({"tool_error", "rpc_error", "http_error"})) :
          LET m == [sent EXCEPT !.srvLog = Append(@, [outcome |-> out, form |-> form])]
              s == IF out = "applied"
                   THEN [m EXCEPT !.srvContent =
                                     ReplaceFrom(mh.srvContent, ArgValue(args, FindAliases),
                                                 ArgValue(args, ReplaceAliases), 1,
                                                 /\ HasArg(args, ReplaceAllAliases)
                                                 /\ ArgValue(args, ReplaceAllAliases)
                                                      \in {"true", "all"}),
                                  !.srvVersion = @ + 1,
                                  !.staleApplied = @ \/ mh.editedAfterGet]
                   ELSE m
              t == IF parseDocUpdateCall(form)
                   THEN [s EXCEPT !.updated = TRUE,
                                  !.updateAttempts = Append(@, Attempt(TRUE, c.reason))]
                   ELSE [s EXCEPT !.updateAttempts = Append(@, Attempt(FALSE, c.reason))]
          IN mh' = NextAttempt(t, mh.ci + 1)
  /\ UNCHANGED <<dl, fd, rc, hd, pf, st, cc>>

(***************************************************************************)
(* Pure helpers applied to drawn inputs: the input is chosen by the        *)
(* initial state, the action applies the function as the code computes it. *)
(***************************************************************************)
MaxLen == 5

PfIdle == [pc |-> "idle", fn |-> "none", input |-> <<>>, output |-> FALSE]

RECURSIVE SeqsUpTo(_, _)
SeqsUpTo(S, n) ==
  IF n = 0 THEN {<<>>}
  ELSE LET shorter == SeqsUpTo(S, n - 1)
       IN shorter \cup {Append(s, x) : s \in {t \in shorter : Len(t) = n - 1}, x \in S}

PfIsPdfMagic ==
  /\ pf.pc = "input"
  /\ pf.fn = "isPdfMagic"
  /\ pf' = [pf EXCEPT !.pc = "applied", !.output = isPdfMagic(pf.input)]
  /\ UNCHANGED <<dl, fd, rc, mh, hd, st, cc>>


PfBuildDocUpdateArgs ==
  /\ pf.pc = "input"
  /\ pf.fn = "buildDocUpdateArgs"
  /\ pf' = [pf EXCEPT !.pc = "applied",
                      !.output = buildDocUpdateArgs(pf.input.props, "board", "doc",
                                                    <<"f">>, <<"r">>,
                                                    pf.input.replaceAll,
                                                    pf.input.version)]
  /\ UNCHANGED <<dl, fd, rc, mh, hd, st, cc>>
(***************************************************************************)
(* The request handlers.  Every handler shares the same front: method,     *)
(* environment and body validation, then (inside one try/catch) the item   *)
(* lookup, the byte download (the miroDownloadBinary steps above), the two *)
(* provider calls and the write path.  hd.out lists every outbound request *)
(* in the order it is issued.                                              *)
(*   api      analyze handler, lenient download, recreate-and-replace      *)
(*   p1       analyze handler, lenient download, recreate with fallbacks   *)
(*   mcp      analyze handler, lenient download, versioned MCP update      *)
(*   p0       analyze handler, strict download, best-effort new document   *)
(*   p2       analyze handler, lenient download, new document              *)
(*   stickies table-to-stickies handler (no download, no provider call)    *)
(***************************************************************************)
HdIdle ==
  [variant |-> "none", pc |-> "idle", method |-> "none", envToken |-> FALSE,
   body |-> "none", hasBoard |-> FALSE, hasItem |-> FALSE, hasKey |-> FALSE,
   out |-> <<>>, found |-> "none", responses |-> 0, status |-> 0,
   message |-> ""]

Outbound(h, to, method, kind, bytes) ==
  [h EXCEPT !.out = Append(@, [to |-> to, method |-> method, kind |-> kind,
                               bytes |-> bytes])]

Respond(h, status, message) ==
  [h EXCEPT !.pc = "done", !.responses = @ + 1, !.status = status,
            !.message = message]

Caught_GenericText(h, message) == Respond(h, 500, "Internal Server Error")

Caught_Rethrow(h, message) == [h EXCEPT !.pc = "escaped"]

\* catch (e) { res.status(500).send(e.message) }
Caught(h, message) == Respond(h, 500, message)

Validate_NoFieldCheck(h) ==
  IF h.method = "OPTIONS" THEN <<204, "">>
  ELSE IF h.method # "POST" THEN <<405, "Use POST.">>
  ELSE IF ~h.envToken
    THEN <<500, "Server misconfigured: MIRO_ACCESS_TOKEN is missing.">>
  ELSE IF h.body \in {"unparsable", "null"} THEN <<400, "Invalid JSON body.">>
  ELSE <<0, "">>

\* The checks made before the try block, in the order of the code.
\* <<0, "">> stands for "all checks passed".
Validate(h) ==
  IF h.method = "OPTIONS" THEN <<204, "">>
  ELSE IF h.method # "POST" THEN <<405, "Use POST.">>
  ELSE IF ~h.envToken
    THEN <<500, "Server misconfigured: MIRO_ACCESS_TOKEN is missing.">>
  ELSE IF h.body \in {"unparsable", "null"} THEN <<400, "Invalid JSON body.">>
  ELSE IF ~h.hasBoard \/ ~h.hasItem
    THEN <<400, IF h.variant = "stickies"
                THEN "boardId or tableItemId missing."
                ELSE "boardId or itemId missing.">>
  ELSE IF h.variant # "stickies" /\ ~h.hasKey THEN <<400, "openaiKey missing.">>
  ELSE <<0, "">>

HdValidate ==
  /\ hd.pc = "start"
  /\ LET v == Validate(hd)
     IN hd' = IF v[1] = 0 THEN [hd EXCEPT !.pc = "lookup"]
              ELSE Respond(hd, v[1], v[2])
  /\ UNCHANGED <<dl, fd, rc, mh, pf, st, cc>>

\* GET the selected item, then (analyze handlers) GET its document record;
\* on success the download starts with the variant's miroDownloadBinary.
HdLookup ==
  /\ hd.pc = "lookup"
  /\ \E o \in {"item_error", "not_document", "doc_error", "no_url", "ok"} :
       LET h1 == Outbound(hd, "board", "GET", "items", <<>>)
           h2 == Outbound(h1, "board", "GET", "documents", <<>>)
       IN IF hd.variant = "stickies"
          THEN /\ o \in {"item_error", "ok"}
               /\ hd' = IF o = "ok" THEN [h1 EXCEPT !.pc = "write"]
                        ELSE Caught(h1, "Miro GET items")
               /\ dl' = dl
          ELSE /\ hd' = CASE o = "item_error"   -> Caught(h1, "Miro GET items")
                          [] o = "not_document" ->
                               Respond(h1, 400, "Selected item is not a document item.")
                          [] o = "doc_error"    -> Caught(h2, "Miro GET documents")
                          [] o = "no_url"       ->
                               Respond(h2, 500, "No downloadUrl in document item data")
                          [] OTHER              -> [h2 EXCEPT !.pc = "download"]
               /\ dl' = IF o = "ok"
                        THEN DlStart(IF hd.variant = "p0" THEN "strict" ELSE "lenient")
                        ELSE dl
  /\ UNCHANGED <<fd, rc, mh, pf, st, cc>>

HdLlm_NoWait ==
  /\ hd.pc = "download"
  /\ hd' = [Outbound(Outbound(hd, "llm", "POST", "files", dl.bytes),
                     "llm", "POST", "responses", <<>>) EXCEPT !.pc = "write"]
  /\ UNCHANGED <<dl, fd, rc, mh, pf, st, cc>>

\* After miroDownloadBinary: its error is caught; otherwise openaiUploadPdf
\* (which refuses bytes without the PDF magic before any request) and
\* openaiAnalyzePdf.
HdLlm ==
  /\ hd.pc = "download"
  /\ dl.pc = "done"
  /\ IF dl.result = "error" THEN hd' = Caught(hd, dl.err)
     ELSE IF ~isPdfMagic(dl.bytes)
       THEN hd' = Caught(hd, "Refusing to upload non-PDF bytes to OpenAI")
     ELSE \E o \in {"upload_error", "analyze_error", "ok"} :
            LET h1 == Outbound(hd, "llm", "POST", "files", dl.bytes)
                h2 == Outbound(h1, "llm", "POST", "responses", <<>>)
            IN hd' = CASE o = "upload_error"  -> Caught(h1, "OpenAI upload failed")
                       [] o = "analyze_error" -> Caught(h2, "OpenAI analyze failed")
                       [] OTHER               -> [h2 EXCEPT !.pc = "write"]
  /\ UNCHANGED <<dl, fd, rc, mh, pf, st, cc>>

TargetNotFound_CreateNew(h) ==
  Respond(Outbound(h, "board", "POST", "docs", <<>>), 200, "ok")

\* findDocFormatByTitle returned null: 404 naming the expected title.
TargetNotFound(h) ==
  Respond(h, 404, "Target doc format item not found. Expected an existing doc titled T.")

\* The write path.  Handlers that write into the pre-existing target locate
\* it first (the lookup issues GETs only); the writes themselves are the
\* recreate and MCP paths modelled above, summarised here by their first
\* request and their response.
HdWrite ==
  /\ hd.pc = "write"
  /\ \E f \in {"threw", "null", "found"}, w \in {"error", "empty", "ok"} :
       LET g  == Outbound(hd, "board", "GET", "items", <<>>)
           pd == Outbound(hd, "board", "POST", "docs", <<>>)
           pf1 == Outbound(g, "board", "POST", "docs", <<>>)
           mc == Outbound(g, "mcp", "POST", "tools/call", <<>>)
           ms == Outbound(hd, "mcp", "POST", "tools/call", <<>>)
       IN CASE hd.variant \in {"api", "p1", "mcp"} ->
                 /\ f = "found" \/ w = "ok"
                 /\ w # "empty"
                 /\ hd' = CASE f = "threw" -> Caught([g EXCEPT !.found = f], "Miro GET items")
                            [] f = "null"  -> TargetNotFound([g EXCEPT !.found = f])
                            [] OTHER       ->
                                 LET h1 == IF hd.variant = "mcp" THEN mc ELSE pf1
                                     h2 == [h1 EXCEPT !.found = f]
                                 IN IF w = "ok" THEN Respond(h2, 200, "ok")
                                    ELSE Caught(h2, "write failed")
            [] hd.variant \in {"p0", "p2"} ->
                 /\ f = "found"
                 /\ w = "ok"
                 /\ hd' = Respond(pd, 200, "ok")
            [] OTHER ->
                 /\ f = "found"
                 /\ hd' = CASE w = "error" -> Caught(ms, "MCP tools/call failed")
                            [] w = "empty" -> Respond(ms, 500, "No rows or columns")
                            [] OTHER       ->
                                 Respond(Outbound(ms, "board", "POST", "sticky_notes", <<>>),
                                         200, "ok")
  /\ UNCHANGED <<dl, fd, rc, mh, pf, st, cc>>


(***************************************************************************)
(* The table-to-stickies handler after table_list_rows returned: the table *)
(* has st.cols columns and st.rows data rows (normalizeRows gives every    *)
(* row one cell per column).  st.posts lists every POST /sticky_notes with *)
(* the cell (row 0 is the header row), the payload shape (A: fields under  *)
(* data, B: fields at the root) and the outcome.                           *)
(***************************************************************************)
MaxCols == 2
MaxRows == 1

StIdle ==
  [pc |-> "idle", cols |-> 0, rows |-> 0, r |-> 0, c |-> 0, shape |-> "A",
   posts |-> <<>>, createdIds |-> <<>>, status |-> 0, createdCount |-> 0]

\* if (!columns.length || !rows.length) 500; else the loops start at (0, 0).
StStart ==
  /\ st.pc = "start"
  /\ st' = IF st.cols = 0 \/ st.rows = 0
           THEN [st EXCEPT !.pc = "done", !.status = 500]
           ELSE [st EXCEPT !.pc = "cell", !.r = 0, !.c = 0, !.shape = "A"]
  /\ UNCHANGED <<dl, fd, rc, mh, hd, pf, cc>>

StPost_AbortOnSecondFailure ==
  /\ st.pc = "cell"
  /\ \E out \in {"fail", "ok_id", "ok_noid"} :
       LET s == [st EXCEPT !.posts = Append(@, [r |-> st.r, c |-> st.c,
                                                shape |-> st.shape, outcome |-> out])]
       IN st' = IF out = "fail" /\ st.shape = "A" THEN [s EXCEPT !.shape = "B"]
                ELSE IF out = "fail" THEN [s EXCEPT !.pc = "done", !.status = 500]
                ELSE LET t == [s EXCEPT !.shape = "A",
                                        !.createdIds = IF out = "ok_id"
                                                       THEN Append(@, 300 + Len(s.posts))
                                                       ELSE @]
                     IN IF st.c + 1 < st.cols THEN [t EXCEPT !.c = @ + 1]
                        ELSE IF st.r + 1 < st.rows + 1 THEN [t EXCEPT !.r = @ + 1, !.c = 0]
                        ELSE [t EXCEPT !.pc = "respond"]
  /\ UNCHANGED <<dl, fd, rc, mh, hd, pf, cc>>

\* One POST of createStickyNote for the cell (r, c): payloadA first, payloadB
\* after payloadA threw; an id, or null, ends the cell and the loops advance.
StPost ==
  /\ st.pc = "cell"
  /\ \E out \in {"fail", "ok_id", "ok_noid"} :
       LET s == [st EXCEPT !.posts = Append(@, [r |-> st.r, c |-> st.c,
                                                shape |-> st.shape, outcome |-> out])]
       IN st' = IF out = "fail" /\ st.shape = "A" THEN [s EXCEPT !.shape = "B"]
                ELSE LET t == [s EXCEPT !.shape = "A",
                                        !.createdIds = IF out = "ok_id"
                                                       THEN Append(@, 300 + Len(s.posts))
                                                       ELSE @]
                     IN IF st.c + 1 < st.cols THEN [t EXCEPT !.c = @ + 1]
                        ELSE IF st.r + 1 < st.rows + 1 THEN [t EXCEPT !.r = @ + 1, !.c = 0]
                        ELSE [t EXCEPT !.pc = "respond"]
  /\ UNCHANGED <<dl, fd, rc, mh, hd, pf, cc>>

\* res.status(200).json({ ok: true, ..., createdCount: createdIds.length })
StRespond ==
  /\ st.pc = "respond"
  /\ st' = [st EXCEPT !.pc = "done", !.status = 200,
                      !.createdCount = Len(st.createdIds)]
  /\ UNCHANGED <<dl, fd, rc, mh, hd, pf, cc>>

(***************************************************************************)
(* Two recreate-and-replace requests running against the same board.  The  *)
(* handler keeps no state between requests and takes no lock: a request is *)
(* its own local variables, and the board is the only thing shared.  Each  *)
(* awaited call is one step; between two steps of a request the other may  *)
(* take any number of steps, and a request may be aborted (the function is *)
(* killed) at any await.  Only the steps that read or change the set of    *)
(* documents are kept: findDocFormatByTitle, the POST /docs loop and the   *)
(* DELETE; the re-parent PATCH and the POST /texts fallback touch no       *)
(* document.  cc.docs is the set of ids of the documents on the board that *)
(* carry the target title: 1 is the original, 10p + 1 the document whose   *)
(* id request p was given, 10p the documents request p created without     *)
(* learning their id (a 2xx answer without an id).                         *)
(***************************************************************************)
Requests == {1, 2}

CcIdle ==
  [docs |-> {},
   req  |-> [p \in Requests |-> [pc |-> "idle", target |-> 0, vi |-> 0, created |-> 0]]]

\* findDocFormatByTitle: null on a board without a matching document (404),
\* else one of the matching documents.
CcLocate(p) ==
  /\ cc.req[p].pc = "locate"
  /\ IF cc.docs = {}
     THEN cc' = [cc EXCEPT !.req[p].pc = "done"]
     ELSE \E d \in cc.docs :
            cc' = [cc EXCEPT !.req[p].pc = "create", !.req[p].target = d,
                             !.req[p].vi = 1]
  /\ UNCHANGED <<dl, fd, rc, mh, hd, pf, st>>

CcCreate_DeleteAnyway(p) ==
  /\ cc.req[p].pc = "create"
  /\ \E out \in {"fail", "ok_id", "ok_noid"} :
       LET id == 10 * p + (IF out = "ok_id" THEN 1 ELSE 0)
           b  == IF out = "fail" THEN cc ELSE [cc EXCEPT !.docs = @ \cup {id}]
       IN cc' = IF out = "ok_id"
                THEN [b EXCEPT !.req[p].created = id, !.req[p].pc = "delete"]
                ELSE IF cc.req[p].vi = Len(createVariants)
                THEN [b EXCEPT !.req[p].pc = "delete"]
                ELSE [b EXCEPT !.req[p].vi = @ + 1]
  /\ UNCHANGED <<dl, fd, rc, mh, hd, pf, st>>

\* One iteration of the loop over createVariants: a 2xx answer puts a new
\* document on the board; only an answer that carries an id ends the loop
\* and leads to the DELETE.
CcCreate(p) ==
  /\ cc.req[p].pc = "create"
  /\ \E out \in {"fail", "ok_id", "ok_noid"} :
       LET id == 10 * p + (IF out = "ok_id" THEN 1 ELSE 0)
           b  == IF out = "fail" THEN cc ELSE [cc EXCEPT !.docs = @ \cup {id}]
       IN cc' = IF out = "ok_id"
                THEN [b EXCEPT !.req[p].created = id, !.req[p].pc = "delete"]
                ELSE IF cc.req[p].vi = Len(createVariants)
                THEN [b EXCEPT !.req[p].pc = "done"]
                ELSE [b EXCEPT !.req[p].vi = @ + 1]
  /\ UNCHANGED <<dl, fd, rc, mh, hd, pf, st>>

\* DELETE of the located document: it can succeed only while the document
\* is on the board; a failure is recorded and the request ends all the same.
CcDelete(p) ==
  /\ cc.req[p].pc = "delete"
  /\ \E ok \in {TRUE, FALSE} :
       /\ ok => cc.req[p].target \in cc.docs
       /\ cc' = [cc EXCEPT !.req[p].pc = "done",
                           !.docs = IF ok THEN @ \ {cc.req[p].target} ELSE @]
  /\ UNCHANGED <<dl, fd, rc, mh, hd, pf, st>>

\* The function is killed while it waits at an await.
CcAbort(p) ==
  /\ cc.req[p].pc \in {"locate", "create", "delete"}
  /\ cc' = [cc EXCEPT !.req[p].pc = "aborted"]
  /\ UNCHANGED <<dl, fd, rc, mh, hd, pf, st>>
(***************************************************************************)
(* Specifications: one per subsystem, the others stay idle.                *)
(***************************************************************************)
InitDL ==
  /\ st = StIdle
  /\ cc = CcIdle
  /\ dl \in {DlStart(v) : v \in {"lenient", "strict"}}
  /\ fd = FdIdle
  /\ rc = RcIdle
  /\ mh = MhIdle
  /\ hd = HdIdle
  /\ pf = PfIdle

NextDL == DlStep1 \/ DlCandAuth \/ DlCandNoAuth \/ DlLastResort

SpecDL == InitDL /\ [][NextDL]_vars

InitFind ==
  /\ st = StIdle
  /\ cc = CcIdle
  /\ fd \in {FdStart(b, ps) : b \in Boards, ps \in {1, 2}}
  /\ dl = DlIdle
  /\ rc = RcIdle
  /\ mh = MhIdle
  /\ hd = HdIdle
  /\ pf = PfIdle

NextFind == FdListPage \/ FdItem

SpecFind == InitFind /\ [][NextFind]_vars

\* The same scan against a paginator that sends a next cursor with every page.
InitFindCap ==
  /\ st = StIdle
  /\ cc = CcIdle
  /\ fd \in {[FdStart(b, ps) EXCEPT !.stuck = TRUE] :
               b \in {c \in Boards : Len(c) <= 2}, ps \in {1, 2}}
  /\ dl = DlIdle
  /\ rc = RcIdle
  /\ mh = MhIdle
  /\ hd = HdIdle
  /\ pf = PfIdle

SpecFindCap == InitFindCap /\ [][NextFind]_vars

InitRecreate ==
  /\ st = StIdle
  /\ cc = CcIdle
  /\ rc \in {[RcStartState(v, t, a) EXCEPT !.target.content = c] :
               v \in {"api", "p1"}, t \in ({ Target(TRUE, 5, 5, "center", TRUE, 10, 20, 9),
            Target(FALSE, 0, 0, "", FALSE, NoDim, NoDim, 0),
            Target(TRUE, 5, 5, "", TRUE, NoDim, 20, 0),
            Target(TRUE, 5, 5, "top_left", TRUE, 10, NoDim, 9) }), a \in ({ <<"a1">>, <<"a1", "", "a2">> }),
               c \in {<<>>, <<"# Objectives and Key Results Catalog">>}}
  /\ dl = DlIdle
  /\ fd = FdIdle
  /\ mh = MhIdle
  /\ hd = HdIdle
  /\ pf = PfIdle

NextRecreate ==
  RcStart \/ RcCreate \/ RcPatch \/ RcDelete \/ RcDeleteItem \/ RcText \/ RcRespond

SpecRecreate == InitRecreate /\ [][NextRecreate]_vars

\* The property names of the doc_update input schema: none declared, the
\* standard names, no version property, other aliases, and a version
\* property under a name the handler does not know; and the contents the
\* target document may hold when the request starts.
InitMcp ==
  /\ st = StIdle
  /\ cc = CcIdle
  /\ mh \in {MhStartState(s, d) : s \in ({ {},
            {"board_id", "doc_id", "find", "replace", "replace_all", "version"},
            {"board_id", "doc_id", "find", "replace", "replace_all"},
            {"boardId", "documentId", "search", "replacement", "occurrences", "revision"},
            {"board_id", "doc_id", "find", "replace", "expected_version"} }), d \in ({ titleLine,
            titleLine \o <<"\n">>,
            TARGET_DOC_TITLE,
            titleLine \o <<"\n", "\n", "old">>,
            <<"old">>,
            <<>>,
            titleLine \o <<"\n", "\n">> \o docMarkdown })}
  /\ dl = DlIdle
  /\ fd = FdIdle
  /\ rc = RcIdle
  /\ hd = HdIdle
  /\ pf = PfIdle

NextMcp == MhStart \/ MhSession \/ MhDocGet \/ MhExternalEdit \/ MhDocUpdate

SpecMcp == InitMcp /\ [][NextMcp]_vars

InitHandler ==
  /\ st = StIdle
  /\ cc = CcIdle
  /\ hd \in {[HdIdle EXCEPT !.variant = v, !.pc = "start", !.method = m,
                            !.envToken = e, !.body = b, !.hasBoard = hb,
                            !.hasItem = hi, !.hasKey = hk] :
               v \in {"api", "p1", "mcp", "p0", "p2", "stickies"},
               m \in {"POST", "GET", "OPTIONS"}, e \in BOOLEAN,
               b \in {"unparsable", "null", "object"},
               hb \in BOOLEAN, hi \in BOOLEAN, hk \in BOOLEAN}
  /\ dl = DlIdle
  /\ fd = FdIdle
  /\ rc = RcIdle
  /\ mh = MhIdle
  /\ pf = PfIdle

NextHandler ==
  \/ HdValidate \/ HdLookup
  \/ DlStep1 \/ DlCandAuth \/ DlCandNoAuth \/ DlLastResort
  \/ HdLlm \/ HdWrite

SpecHandler == InitHandler /\ [][NextHandler]_vars

InitMagic ==
  /\ st = StIdle
  /\ cc = CcIdle
  /\ pf \in {[PfIdle EXCEPT !.pc = "input", !.fn = "isPdfMagic", !.input = b] :
               b \in (SeqsUpTo({37, 80, 68, 70, 0}, MaxLen))}
  /\ dl = DlIdle
  /\ fd = FdIdle
  /\ rc = RcIdle
  /\ mh = MhIdle
  /\ hd = HdIdle

SpecMagic == InitMagic /\ [][PfIsPdfMagic]_vars


\* buildDocUpdateArgs applied to drawn inputs: the schema declares any subset
\* of thirteen property names; the replace-all flag and the version (or none) vary.
InitArgs ==
  /\ st = StIdle
  /\ cc = CcIdle
  /\ pf \in {[PfIdle EXCEPT !.pc = "input", !.fn = "buildDocUpdateArgs",
                            !.input = [props |-> p, replaceAll |-> ra, version |-> v]] :
               p \in SUBSET {"board_id", "boardId", "doc_id", "id", "find", "search",
                             "replace", "to", "replace_all", "occurrences",
                             "version", "revision", "pattern"},
               ra \in BOOLEAN, v \in {NoVersion, 1}}
  /\ dl = DlIdle
  /\ fd = FdIdle
  /\ rc = RcIdle
  /\ mh = MhIdle
  /\ hd = HdIdle

SpecArgs == InitArgs /\ [][PfBuildDocUpdateArgs]_vars

\* Tables of up to MaxCols columns and MaxRows data rows.
InitStickies ==
  /\ st \in {[StIdle EXCEPT !.pc = "start", !.cols = c, !.rows = r] :
               c \in 0..MaxCols, r \in 0..MaxRows}
  /\ cc = CcIdle
  /\ dl = DlIdle
  /\ fd = FdIdle
  /\ rc = RcIdle
  /\ mh = MhIdle
  /\ hd = HdIdle
  /\ pf = PfIdle

SpecStickies == InitStickies /\ [][StStart \/ StPost \/ StRespond]_vars

\* One or two requests start on a board that holds the original.
InitRace ==
  /\ cc \in {[CcIdle EXCEPT !.docs = {1},
                            !.req = [p \in Requests |->
                                       IF p \in active
                                       THEN [CcIdle.req[p] EXCEPT !.pc = "locate"]
                                       ELSE CcIdle.req[p]]] :
               active \in {{1}, {1, 2}}}
  /\ st = StIdle
  /\ dl = DlIdle
  /\ fd = FdIdle
  /\ rc = RcIdle
  /\ mh = MhIdle
  /\ hd = HdIdle
  /\ pf = PfIdle

SpecRace ==
  InitRace /\ [][\E p \in Requests : CcLocate(p) \/ CcCreate(p) \/ CcDelete(p) \/ CcAbort(p)]_vars
(***************************************************************************)
(* Properties.                                                             *)
(***************************************************************************)

\* C1: every byte sequence miroDownloadBinary returns as a success, in every
\* variant and on every success branch, begins with the magic bytes
\* 25 50 44 46.
C1_SuccessHasMagic == dl.result = "ok" => isPdfMagic(dl.bytes)

\* C2: when the first fetch returns 2xx with a content-type containing
\* application/pdf and a body without the magic bytes, miroDownloadBinary
\* fails with an error, returns no bytes and makes no other fetch.
C2_DeclaredPdfWithoutMagicFails ==
  (/\ dl.log # <<>>
   /\ ~dl.log[1].resp.net
   /\ dl.log[1].resp.ok
   /\ CtIncludesPdf(dl.log[1].resp.ct)
   /\ ~isPdfMagic(dl.log[1].resp.body))
  => (dl.pc = "done" /\ dl.result = "error" /\ dl.bytes = <<>> /\ Len(dl.log) = 1)

C2_Witness ==
  /\ dl.pc = "done"
  /\ Len(dl.log) = 1
  /\ dl.log[1].resp = RespPdfLie
  /\ dl.result = "error"

\* A fetch that serves valid PDF bytes.
ServesPdf(r) == ~r.net /\ r.ok /\ isPdfMagic(r.body)

\* C3: a candidate whose with-auth fetch errors (non-2xx or non-PDF) is
\* fetched next without credential, before any other candidate, and when
\* that fetch serves valid PDF bytes the download succeeds with those bytes.
C3_NoAuthFallbackPerCandidate ==
  dl.pc = "done" =>
    \A k \in 2..Len(dl.log) :
      (dl.log[k].auth /\ ~ServesPdf(dl.log[k].resp)) =>
        /\ k + 1 <= Len(dl.log)
        /\ dl.log[k + 1].url = dl.log[k].url
        /\ ~dl.log[k + 1].auth
        /\ ServesPdf(dl.log[k + 1].resp) =>
             (dl.result = "ok" /\ dl.bytes = dl.log[k + 1].resp.body
              /\ Len(dl.log) = k + 1)

\* The scanned doc_format items whose own data match the wanted title.
MatchingItems == {k \in fd.scanned : IsMatch(fd.board[k], TRUE)}

\* The scanned items the scan could identify as matches: by the list title,
\* or by the content when the details request succeeded.
IdentifiedItems == {k \in fd.scanned : IsMatch(fd.board[k], k \notin fd.failed)}

\* A placeholder as the specification defines it: content empty, or only
\* the title, or a single heading line with the title.
IsPlaceholder(it) ==
  \/ extractDocContent(DetailsOf(it)) = <<>>
  \/ isEffectivelyEmptyDoc(DetailsOf(it), Wanted)

IsPopulated(it) == ~IsPlaceholder(it)

\* C4: of two title-matching doc_format items, one with empty content and
\* one populated with a larger area, the one with empty content is returned.
C4_EmptyContentPreferred ==
  (fd.pc = "done" /\ fd.failed = {}) =>
    \A e, p \in fd.scanned :
      (/\ MatchingItems = {e, p}
       /\ e # p
       /\ extractDocContent(DetailsOf(fd.board[e])) = <<>>
       /\ IsPopulated(fd.board[p])
       /\ geometryArea(fd.board[p]) > geometryArea(fd.board[e]))
      => fd.result = e

IsCreateOk(q) == q.method = "POST" /\ q.kind = "docs" /\ q.outcome = "ok_id"

\* C6: the DELETE of the original is issued only after a create-document
\* POST of the same request succeeded and yielded an id; when no create
\* succeeded no DELETE is issued and the original still exists.
C6_DeleteOnlyAfterCreate ==
  /\ \A k \in 1..Len(rc.reqs) :
       rc.reqs[k].method = "DELETE" =>
         /\ rc.reqs[k].target = rc.target.id
         /\ \E j \in 1..(k - 1) : IsCreateOk(rc.reqs[j])
  /\ (\A j \in 1..Len(rc.reqs) : ~IsCreateOk(rc.reqs[j])) =>
       /\ \A k \in 1..Len(rc.reqs) : rc.reqs[k].method # "DELETE"
       /\ rc.origExists

C6_Witness ==
  /\ rc.pc = "done"
  /\ ~rc.origExists
  /\ \E k \in 1..Len(rc.reqs) :
       /\ rc.reqs[k].method = "DELETE"
       /\ \E j \in 1..(k - 1) : rc.reqs[j].method = "POST" /\ rc.reqs[j].outcome = "fail"

DocCreates == SelectSeq(rc.reqs, LAMBDA q : q.method = "POST" /\ q.kind = "docs")

TextCreates == SelectSeq(rc.reqs, LAMBDA q : q.method = "POST" /\ q.kind = "texts")

AllVariantsFailed ==
  /\ Len(DocCreates) = Len(createVariants)
  /\ \A k \in 1..Len(DocCreates) : DocCreates[k].outcome = "fail"

\* C7: when every create-document variant fails, the original is not
\* deleted and exactly one plain-text creation is attempted, at createPos,
\* with the generated answer as content.
C7_TextFallbackWhenAllFail ==
  (rc.pc \in {"respond", "done"} /\ AllVariantsFailed) =>
    /\ \A k \in 1..Len(rc.reqs) : rc.reqs[k].method # "DELETE"
    /\ rc.origExists
    /\ Len(TextCreates) = 1
    /\ TextCreates[1].payload.position = createPosOf(rc.target)
    /\ TextCreates[1].payload.content = TextContent(rc.answer)

C7_Witness ==
  /\ rc.pc = "done"
  /\ AllVariantsFailed
  /\ Len(rc.answer) > 1
  /\ rc.createdTextId # 0

\* C8: when every doc_update call reports a version conflict, every attempt
\* is counted as failed and the response is a failure, never updated:true.
C8_ConflictIsFailure ==
  (/\ mh.pc = "done"
   /\ mh.srvLog # <<>>
   /\ \A k \in 1..Len(mh.srvLog) : mh.srvLog[k].outcome = "conflict")
  => /\ \A k \in 1..Len(mh.updateAttempts) : ~mh.updateAttempts[k].ok
     /\ mh.status # 200
     /\ ~mh.respUpdated

VersionSendable ==
  /\ mh.currentVersion # NoVersion
  /\ (mh.schema = {} \/ \E i \in 1..Len(VersionAliases) : VersionAliases[i] \in mh.schema)

AllAttemptsFailed ==
  /\ mh.updateAttempts # <<>>
  /\ \A k \in 1..Len(mh.updateAttempts) : ~mh.updateAttempts[k].ok

\* C10: when every doc_update attempt fails, the response is a non-2xx
\* error carrying the attempts, and the request issued no REST create,
\* patch or delete.
C10_HardFailureNoFallback ==
  (mh.pc = "done" /\ AllAttemptsFailed) =>
    /\ mh.status = 500
    /\ ~mh.respUpdated
    /\ mh.respAttempts = mh.updateAttempts
    /\ \A k \in 1..Len(mh.rest) : mh.rest[k] = "GET"

C10_Witness ==
  /\ mh.pc = "done"
  /\ AllAttemptsFailed
  /\ Len(mh.updateAttempts) >= 3
  /\ mh.status = 500

\* C12: isPdfMagic answers true exactly for the byte sequences of length at
\* least four that begin with 25 50 44 46 (hex), whatever the length of the
\* input, the empty sequence and the sequences of length one to three
\* included.
C12_MagicIffPdfHeader ==
  (pf.pc = "applied" /\ pf.fn = "isPdfMagic") =>
    (pf.output <=> (Len(pf.input) >= 4 /\ SubSeq(pf.input, 1, 4) = <<37, 80, 68, 70>>))

C12_Witness ==
  /\ pf.pc = "applied"
  /\ pf.fn = "isPdfMagic"
  /\ pf.input = <<37, 80, 68>>
  /\ pf.output = FALSE

HasPdfHeader(bytes) == Len(bytes) >= 4 /\ SubSeq(bytes, 1, 4) = <<37, 80, 68, 70>>

LlmRequests == {i \in 1..Len(hd.out) : hd.out[i].to = "llm"}

BoardWrites ==
  {i \in 1..Len(hd.out) : hd.out[i].to = "board" /\ hd.out[i].method # "GET"}

\* C11: in every analyze handler the file upload to the provider carries
\* bytes that begin with the PDF magic; when the downloaded bytes lack it,
\* no provider request is issued at all and the response is not a 2xx.
C11_UploadOnlyPdfBytes ==
  /\ \A i \in LlmRequests :
       /\ dl.result = "ok"
       /\ HasPdfHeader(dl.bytes)
       /\ hd.out[i].kind = "files" => hd.out[i].bytes = dl.bytes
  /\ (hd.pc = "done" /\ dl.result = "ok" /\ ~HasPdfHeader(dl.bytes)) =>
       (LlmRequests = {} /\ hd.status \notin 200..299)

C11_Witness ==
  /\ hd.pc = "done"
  /\ hd.variant = "api"
  /\ dl.result = "ok"
  /\ ~HasPdfHeader(dl.bytes)
  /\ hd.status = 500
  /\ hd.message = "Refusing to upload non-PDF bytes to OpenAI"
  /\ LlmRequests = {}

McpRequests == {i \in 1..Len(hd.out) : hd.out[i].to = "mcp"}

\* C13: in a handler that writes into the pre-existing target, when
\* findDocFormatByTitle returned null the response is not 200, its message
\* names the expected title, and the whole request has issued no board
\* write (no POST, PATCH or DELETE on the board, no MCP update).
C13_NoWriteWhenTargetMissing ==
  (hd.pc = "done" /\ hd.found = "null") =>
    /\ hd.status # 200
    /\ hd.message = "Target doc format item not found. Expected an existing doc titled T."
    /\ BoardWrites = {}
    /\ McpRequests = {}

C13_Witness ==
  /\ hd.pc = "done"
  /\ hd.variant = "mcp"
  /\ hd.found = "null"
  /\ hd.status = 404
  /\ LlmRequests # {}
  /\ BoardWrites = {}

MentionsBoardId(message) ==
  message \in {"boardId or itemId missing.", "boardId or tableItemId missing."}

\* C14 (as stated): a POST whose JSON body lacks boardId or itemId is
\* answered with 400 and a message containing "boardId", and no outbound
\* request is made.
C14_MissingFieldIs400 ==
  (hd.pc = "done" /\ hd.method = "POST" /\ hd.body # "unparsable"
     /\ (hd.body = "null" \/ ~hd.hasBoard \/ ~hd.hasItem)) =>
    (hd.status = 400 /\ MentionsBoardId(hd.message) /\ hd.out = <<>>)

\* C14 (amended): with the access token configured, a POST whose body parses
\* to a JSON object lacking boardId or itemId is answered with 400 and a
\* message containing "boardId", and no outbound request is made.
C14_MissingFieldOfObjectIs400 ==
  (hd.pc = "done" /\ hd.method = "POST" /\ hd.envToken /\ hd.body = "object"
     /\ (~hd.hasBoard \/ ~hd.hasItem)) =>
    (hd.status = 400 /\ MentionsBoardId(hd.message) /\ hd.out = <<>>)

C14_Witness ==
  /\ hd.pc = "done"
  /\ hd.method = "POST"
  /\ hd.envToken
  /\ hd.body = "object"
  /\ ~hd.hasBoard
  /\ hd.hasItem
  /\ hd.status = 400
  /\ hd.message = "boardId or itemId missing."
  /\ hd.out = <<>>

\* C18: when miroDownloadBinary fails, the handler answers with a non-2xx
\* status whose text is the download error, and the request has issued no
\* board mutation, no MCP call and no provider call.
C18_DownloadFailureIsSafe ==
  (hd.pc = "done" /\ dl.pc = "done" /\ dl.result = "error") =>
    /\ hd.status \notin 200..299
    /\ hd.message = dl.err
    /\ LlmRequests = {}
    /\ BoardWrites = {}
    /\ McpRequests = {}

C18_Witness ==
  /\ hd.pc = "done"
  /\ hd.variant = "p0"
  /\ dl.result = "error"
  /\ Len(dl.log) >= 3
  /\ hd.status = 500
  /\ hd.message = dl.err

\* C19: a handler invocation that has finished has sent exactly one response,
\* one that has not finished has sent none and can always take a further
\* step: no failure of a collaborator leaves it without a response.
C19_ExactlyOneResponse ==
  /\ hd.responses = (IF hd.pc = "done" THEN 1 ELSE 0)
  /\ hd.pc \notin {"idle", "done"} => ENABLED NextHandler

C19_Witness ==
  /\ hd.pc = "done"
  /\ hd.variant = "stickies"
  /\ hd.responses = 1
  /\ hd.status = 500
  /\ hd.message = "MCP tools/call failed"

FirstIsOpaque ==
  /\ Len(dl.log) >= 1
  /\ LET r == dl.log[1].resp
     IN ~r.net /\ r.ok /\ ~CtIncludesPdf(r.ct) /\ ~CtIncludesJson(r.ct)
        /\ ~isPdfMagic(r.body)

\* C20: when the first response is neither a declared PDF nor JSON and its
\* body lacks the PDF magic, miroDownloadBinary fetches the original URL
\* exactly once more, without credential, before failing, and succeeds with
\* the bytes of that response when they are valid PDF bytes.
C20_LastResortRefetch ==
  (dl.pc = "done" /\ FirstIsOpaque) =>
    /\ Len(dl.log) = 2
    /\ dl.log[2].url = DownloadUrl
    /\ ~dl.log[2].auth
    /\ IF ServesPdf(dl.log[2].resp)
       THEN dl.result = "ok" /\ dl.bytes = dl.log[2].resp.body
       ELSE dl.result = "error"

DocGetSucceeded == mh.pc \in {"update", "done"} /\ mh.desired # <<>>

NoOpReported == mh.respReason = "already-up-to-date-or-empty-candidates"

\* C17: in the versioned handler, when the content returned by doc_get
\* equals the desired content no doc_update is issued and the response is
\* 200 with the explicit no-op reason; the no-op response is given in no
\* other case.
C17_NoOpIffUpToDate ==
  /\ (DocGetSucceeded /\ mh.currentMarkdown = mh.desired) =>
       /\ mh.pc = "done"
       /\ mh.status = 200
       /\ NoOpReported
       /\ ~mh.updated
       /\ \A k \in 1..Len(mh.mcpCalls) : mh.mcpCalls[k] # "doc_update"
  /\ NoOpReported => (DocGetSucceeded /\ mh.currentMarkdown = mh.desired)

C17_Witness ==
  /\ mh.pc = "done"
  /\ mh.currentMarkdown = titleLine \o <<"\n", "\n">> \o docMarkdown
  /\ mh.currentMarkdown = mh.desired
  /\ mh.status = 200
  /\ NoOpReported
  /\ \E k \in 1..Len(mh.mcpCalls) : mh.mcpCalls[k] = "doc_get"

FailedRequests == {k \in 1..Len(rc.reqs) : rc.reqs[k].outcome = "fail"}

ErrorMessageOf(q) ==
  CASE q.method = "POST" /\ q.kind = "docs"    -> "Miro POST docs"
    [] q.method = "POST" /\ q.kind = "texts"   -> "Miro POST texts"
    [] q.method = "PATCH"                      -> "Miro PATCH items"
    [] q.method = "DELETE" /\ q.kind = "docs"  -> "Miro DELETE docs"
    [] OTHER                                   -> "Miro DELETE items"

\* C16: in the recreate path the error message of every request that failed
\* (create variant, re-parent, delete, text fallback) is among the errors
\* returned in the response.
C16_EveryFailureReported ==
  rc.pc = "done" =>
    \A k \in FailedRequests :
      \E j \in 1..Len(rc.docCreateErrors) :
        rc.docCreateErrors[j] = ErrorMessageOf(rc.reqs[k])


FirstIsErrorStatus ==
  Len(dl.log) >= 1 /\ ~dl.log[1].resp.net /\ ~dl.log[1].resp.ok

\* C21: when the first fetch of the download URL answers with a non-2xx
\* status, miroDownloadBinary fails at once with the step-1 status error
\* (the message made of the status and the body text), and the first fetch
\* stays the only request: no candidate fetch, no fetch without credential.
C21_Step1StatusFailsAtOnce ==
  FirstIsErrorStatus =>
    /\ dl.pc = "done"
    /\ dl.result = "error"
    /\ dl.err = "step1 failed status"
    /\ Len(dl.log) = 1
    /\ dl.log[1].auth
    /\ dl.cands = <<>>

C21_Witness ==
  /\ FirstIsErrorStatus
  /\ dl.variant = "strict"
  /\ dl.pc = "done"
  /\ dl.result = "error"
  /\ dl.log[1].resp.body = ErrJsonBody
  /\ Len(dl.log) = 1

CandidatesExhausted ==
  /\ dl.pc = "done"
  /\ dl.result = "error"
  /\ dl.cands # <<>>
  /\ Len(dl.log) = 1 + 2 * Len(dl.cands)

\* What a failed candidate fetch puts in its error message.
StepReport(k) ==
  CandidateError(dl.log[k].resp,
                 IF dl.log[k].auth THEN "step2/auth" ELSE "step2/noauth")

\* C23: when every candidate of a JSON metadata response failed, the error
\* thrown by miroDownloadBinary reports each attempted step (each candidate,
\* with and without credential), not only the last one.
C23_ExhaustionReportsEveryStep ==
  CandidatesExhausted =>
    \A k \in 2..Len(dl.log) :
      dl.err = "could not resolve pdf from json. Last error: " \o StepReport(k)

Extracted == extractUrlCandidatesFromJson(dl.log[1].resp.meta)

ExtractionIndex(u) == CHOOSE i \in 1..Len(Extracted) : Extracted[i] = u

\* C26: the candidates of a JSON metadata response are tried in an order in
\* which no URL containing api.miro.com precedes one that does not, and in
\* which two URLs of the same group keep their extraction order; the fetches
\* follow that order, each candidate with and then without credential.
C26_PlatformHostLast ==
  dl.cands # <<>> =>
    /\ Len(dl.cands) = Len(Extracted)
    /\ \A i \in 1..Len(dl.cands) : \E j \in 1..Len(Extracted) : Extracted[j] = dl.cands[i]
    /\ \A i, j \in 1..Len(dl.cands) :
         i < j =>
           /\ ~(IncludesMiroApi(dl.cands[i]) /\ ~IncludesMiroApi(dl.cands[j]))
           /\ (IncludesMiroApi(dl.cands[i]) = IncludesMiroApi(dl.cands[j])) =>
                ExtractionIndex(dl.cands[i]) < ExtractionIndex(dl.cands[j])
    /\ \A k \in 2..Len(dl.log) : dl.log[k].url = dl.cands[k \div 2]

C26_Witness ==
  /\ dl.pc = "done"
  /\ Extracted = <<UrlMiro, UrlCdn>>
  /\ dl.cands = <<UrlCdn, UrlMiro>>
  /\ Len(dl.log) = 5
  /\ dl.log[2].url = UrlCdn
  /\ dl.log[4].url = UrlMiro

\* C27: every candidate extracted from a JSON metadata response, and hence
\* every candidate URL that is fetched, is an absolute URL beginning with
\* http:// or https://.
C27_CandidatesAreAbsoluteUrls ==
  /\ \A i \in 1..Len(dl.cands) : StartsWithHttp(dl.cands[i])
  /\ \A k \in 1..Len(dl.log) : StartsWithHttp(dl.log[k].url)

\* C25: findDocFormatByTitle issues at most 100 list-page requests even when
\* every page carries a next cursor (the same one for ever included): after
\* the 100th page no further request is pending, every earlier state of the
\* scan can take a step, and the scan that ends by the cap returns the best
\* match found so far, or null when there is none.
C25_ListRequestsCapped ==
  /\ fd.lists <= PageCap
  /\ fd.pc = "list" => fd.lists < PageCap
  /\ fd.pc \in {"list", "item"} => ENABLED NextFind
  /\ (fd.pc = "done" /\ ~fd.byPlaceholder) =>
       /\ fd.result = fd.best
       /\ fd.stuck => fd.lists = PageCap
       /\ fd.best # 0 => IsMatch(fd.board[fd.best], TRUE)

C25_Witness ==
  /\ fd.pc = "done"
  /\ fd.stuck
  /\ fd.lists = PageCap
  /\ fd.cursor = 1
  /\ fd.result = 2

\* Title-matching items whose content is only the title (the title text, or
\* a single heading line with the title).
TitleOnlyMatches ==
  {k \in 1..Len(fd.board) :
     /\ fd.board[k].type = "doc_format"
     /\ IsMatch(fd.board[k], TRUE)
     /\ isEffectivelyEmptyDoc(DetailsOf(fd.board[k]), Wanted)}

FirstOf(S) == CHOOSE k \in S : \A j \in S : k <= j

PagesUpTo(k) == ((k - 1) \div fd.pageSize) + 1

C22_SessionIdReused ==
  /\ Len(mh.mcpHeaders) = Len(mh.mcpCalls)
  /\ mh.mcpCalls # <<>> =>
       (mh.mcpCalls[1] = "initialize" /\ mh.mcpHeaders[1] = 0)
  /\ \A k \in 2..Len(mh.mcpCalls) :
       /\ mh.mcpCalls[k] \in {"tools/list", "doc_get", "doc_update"}
       /\ mh.mcpHeaders[k] = mh.issuedSession

C22_Witness ==
  /\ mh.pc = "done"
  /\ mh.issuedSession = 7
  /\ Len(mh.mcpCalls) >= 4
  /\ mh.mcpCalls[4] = "doc_update"
  /\ mh.mcpHeaders[4] = 7

\* The fixed order of the doc_update finds and the find each one sends.
FindRank(reason) ==
  CASE reason = "replace-entire-doc-exact"   -> 1
    [] reason = "replace-entire-doc-trim"    -> 2
    [] reason = "replace-title-heading-only" -> 3
    [] OTHER                                 -> 4

FindOf(reason) ==
  CASE reason = "replace-entire-doc-exact"   -> mh.currentMarkdown
    [] reason = "replace-entire-doc-trim"    -> Trim(mh.currentMarkdown)
    [] reason = "replace-title-heading-only" -> titleLine
    [] OTHER                                 -> TARGET_DOC_TITLE

\* The doc_update calls follow the fixed order (exact, trimmed, heading, bare
\* title), stop at the first success, use the looser finds only for a
\* placeholder, and follow a single doc_get.
UpdatesInFixedOrder ==
  /\ Len(mh.sentArgs) = Len(mh.updateAttempts)
  /\ Cardinality({k \in 1..Len(mh.mcpCalls) : mh.mcpCalls[k] = "doc_get"}) <= 1
  /\ \A k \in 1..Len(mh.updateAttempts) :
       LET a == mh.updateAttempts[k]
       IN /\ ArgValue(mh.sentArgs[k], FindAliases) = FindOf(a.reason)
          /\ ArgValue(mh.sentArgs[k], ReplaceAliases) = mh.desired
          /\ k > 1 => FindRank(mh.updateAttempts[k - 1].reason) < FindRank(a.reason)
          /\ k < Len(mh.updateAttempts) => ~a.ok
          /\ FindRank(a.reason) > 1 =>
               isEffectivelyEmptyMarkdown(mh.currentMarkdown, TARGET_DOC_TITLE)

DocPosts == {k \in 1..Len(rc.reqs) : rc.reqs[k].method = "POST" /\ rc.reqs[k].kind = "docs"}

HeadingLine == "# Objectives and Key Results Catalog"

EmbedsHeading(p) ==
  /\ p.content.paras # <<>>
  /\ p.content.paras[1] # <<>>
  /\ p.content.paras[1][1] = HeadingLine

C30_HeadingConventionKept ==
  rc.target.content = <<HeadingLine>> =>
    \A k \in DocPosts :
      IsCreateOk(rc.reqs[k]) =>
        /\ EmbedsHeading(rc.reqs[k].payload)
        /\ rc.reqs[k].payload.content =
             (IF rc.reqs[k].payload.contentType = "html"
              THEN toSimpleHtml(<<HeadingLine, "">> \o docMarkdownOf(rc.answer))
              ELSE MarkdownContent(<<HeadingLine, "">> \o docMarkdownOf(rc.answer)))


PatchRequests == {k \in 1..Len(rc.reqs) : rc.reqs[k].method = "PATCH"}

\* C31: the re-parent PATCH is issued only when a new document was created
\* and the original had a parent; when it fails the failure is recorded,
\* the DELETE of the original is the next request all the same, and the
\* response is still 200.
C31_PatchFailureOnlyRecorded ==
  /\ Cardinality(PatchRequests) <= 1
  /\ \A k \in PatchRequests :
       /\ rc.createdDocId # 0
       /\ rc.target.parent # 0
       /\ rc.reqs[k].target = rc.createdDocId
       /\ \E j \in 1..(k - 1) : IsCreateOk(rc.reqs[j])
       /\ rc.reqs[k].outcome = "fail" =>
            /\ \E e \in 1..Len(rc.docCreateErrors) :
                 rc.docCreateErrors[e] = "Miro PATCH items"
            /\ IF Len(rc.reqs) = k THEN rc.pc = "delete"
               ELSE /\ rc.reqs[k + 1].method = "DELETE"
                    /\ rc.reqs[k + 1].target = rc.target.id
            /\ rc.pc = "done" => rc.status = 200

C31_Witness ==
  /\ rc.pc = "done"
  /\ rc.status = 200
  /\ \E k \in PatchRequests :
       /\ rc.reqs[k].outcome = "fail"
       /\ rc.reqs[k + 1].method = "DELETE"
       /\ rc.reqs[k + 1].outcome = "ok"

\* C35: a 200 response carries the id of a created document or of a created
\* text item.
C35_OkImpliesContentWritten ==
  (rc.pc = "done" /\ rc.status = 200) =>
    (rc.createdDocId # 0 \/ rc.createdTextId # 0)

IsCreatePost(q) == q.method = "POST" /\ q.kind \in {"docs", "texts"}

\* C36: after a create-document POST was answered with a 2xx status, with
\* or without an id in the body, no further create-document or create-text
\* POST is issued.
C36_NoCreateAfterAcceptedCreate ==
  \A j \in 1..Len(rc.reqs) :
    (rc.reqs[j].method = "POST" /\ rc.reqs[j].kind = "docs"
       /\ rc.reqs[j].outcome \in {"ok_id", "ok_noid"}) =>
      \A k \in (j + 1)..Len(rc.reqs) : ~IsCreatePost(rc.reqs[k])

\* C37: a response that reports a replacedDocId follows a successful DELETE
\* of the original with that id; after a failed deletion replacedDocId is
\* null.
C37_ReplacedMeansDeleted ==
  (rc.pc = "done" /\ rc.status = 200 /\ rc.replacedDocId # 0) =>
    /\ ~rc.origExists
    /\ \E k \in 1..Len(rc.reqs) :
         /\ rc.reqs[k].method = "DELETE"
         /\ rc.reqs[k].target = rc.replacedDocId
         /\ rc.reqs[k].outcome = "ok"

\* C38: when the response reports updated:true and no other writer touched
\* the document during the request, the content of the target document
\* equals the desired content, whichever find candidate was accepted.
C38_UpdatedMeansDesiredContent ==
  (mh.pc = "done" /\ mh.respUpdated /\ ~mh.editedAfterGet) =>
    mh.srvContent = mh.desired

ArgKeys(args) == {args[i].k : i \in 1..Len(args)}

KeysAmong(args, aliases) ==
  {k \in ArgKeys(args) : \E j \in 1..Len(aliases) : aliases[j] = k}

BuiltArgs == pf.pc = "applied" /\ pf.fn = "buildDocUpdateArgs"

\* C33: the arguments built by buildDocUpdateArgs hold for each logical
\* field at most one key, the first alias the schema declares; for a schema
\* without properties they are exactly board_id, doc_id, find, replace,
\* replace_all and, when known, version; and the find text and the replace
\* text are present in every argument object built.
C33_ArgsFollowSchema ==
  BuiltArgs =>
    LET args == pf.output
        props == pf.input.props
        Chosen(aliases) ==
          IF props = {} THEN {aliases[1]}
          ELSE {aliases[j] : j \in {i \in 1..Len(aliases) :
                                      /\ aliases[i] \in props
                                      /\ \A h \in 1..(i - 1) : aliases[h] \notin props}}
    IN /\ \A f \in {BoardAliases, DocAliases, FindAliases, ReplaceAliases,
                    ReplaceAllAliases} :
            KeysAmong(args, f) = Chosen(f)
       /\ KeysAmong(args, VersionAliases) =
            (IF pf.input.version = NoVersion THEN {} ELSE Chosen(VersionAliases))
       /\ Cardinality(ArgKeys(args)) = Len(args)
       /\ HasArg(args, FindAliases) /\ ArgValue(args, FindAliases) = <<"f">>
       /\ HasArg(args, ReplaceAliases) /\ ArgValue(args, ReplaceAliases) = <<"r">>

\* The stage of an outbound request of an analyze handler: 0 the lookup of
\* the selected item, 2 the upload, 3 the generation, 4 the location of the
\* target, 5 the write (stage 1, the download, is the log of miroDownloadBinary).
StageOf(i) ==
  LET q == hd.out[i]
  IN IF i <= 2 THEN 0
     ELSE IF q.to = "llm" THEN (IF q.kind = "files" THEN 2 ELSE 3)
     ELSE IF q.to = "board" /\ q.method = "GET" THEN 4
     ELSE 5

CellOf(k) == st.posts[k].r * st.cols + st.posts[k].c + 1

CellsWithId ==
  {CellOf(k) : k \in {j \in 1..Len(st.posts) : st.posts[j].outcome = "ok_id"}}

\* The POSTs visit the cells in row-major order from the header row, one
\* cell after the other, each cell with payload A and, only after A failed,
\* payload B; a cell whose two POSTs failed is followed by the next cell.
PostsInGridOrder ==
  /\ \A k \in 1..Len(st.posts) :
       LET p == st.posts[k]
       IN /\ p.r \in 0..st.rows /\ p.c \in 0..(st.cols - 1)
          /\ IF p.shape = "A"
             THEN CellOf(k) = (IF k = 1 THEN 1 ELSE CellOf(k - 1) + 1)
             ELSE /\ k > 1
                  /\ CellOf(k) = CellOf(k - 1)
                  /\ st.posts[k - 1].shape = "A"
                  /\ st.posts[k - 1].outcome = "fail"
  /\ \A n \in 1..((st.rows + 1) * st.cols) :
       Cardinality({k \in 1..Len(st.posts) : CellOf(k) = n}) <= 2

AttemptedCells == {CellOf(k) : k \in 1..Len(st.posts)}

\* C34 as stated: for every table with C columns and R data rows the
\* finished request has attempted exactly the (R+1) x C cells in row-major
\* order, at most two POSTs per cell, and createdCount counts the cells
\* that returned an id.
C34_EveryTableAttempted ==
  /\ PostsInGridOrder
  /\ st.pc = "done" =>
       /\ AttemptedCells = 1..((st.rows + 1) * st.cols)
       /\ st.createdCount = Cardinality(CellsWithId)

\* C34 (amended): the same for a table with at least one column and at
\* least one data row, where the response is 200 whatever failed; for a
\* table without columns or without data rows no sticky is attempted and
\* the response is 500.
C34_NonEmptyTableAttempted ==
  /\ PostsInGridOrder
  /\ st.pc = "done" =>
       IF st.cols >= 1 /\ st.rows >= 1
       THEN /\ AttemptedCells = 1..((st.rows + 1) * st.cols)
            /\ st.createdCount = Cardinality(CellsWithId)
            /\ st.createdCount = Len(st.createdIds)
            /\ st.status = 200
       ELSE /\ st.posts = <<>>
            /\ st.status = 500
            /\ st.createdCount = 0

C34_Witness ==
  /\ st.pc = "done"
  /\ st.cols = 2 /\ st.rows = 1
  /\ Len(st.posts) = 6
  /\ st.posts[1].outcome = "fail" /\ st.posts[2].outcome = "fail"
  /\ st.posts[3].outcome = "ok_id"
  /\ st.createdCount = 2

\* C39: with up to two concurrent recreate requests, each of which may be
\* aborted at any await, the board always holds the original or a document
\* created by one of the requests.
C39_BoardNeverEmpty ==
  \/ 1 \in cc.docs
  \/ \E p \in Requests : 10 * p \in cc.docs \/ 10 * p + 1 \in cc.docs

C39_Witness ==
  /\ 1 \notin cc.docs
  /\ \A p \in Requests : cc.req[p].pc \in {"done", "aborted"}
  /\ \E p, q \in Requests :
       /\ cc.req[p].target = 1
       /\ cc.req[q].target = cc.req[p].created
       /\ cc.req[q].created # 0
       /\ cc.docs = {cc.req[q].created}

\* C40: two concurrent recreate requests never both replace the same
\* original: at most one of them creates a replacement for a given
\* located document.
C40_OneReplacementPerOriginal ==
  \A p, q \in Requests :
    (p # q /\ cc.req[p].created # 0 /\ cc.req[q].created # 0) =>
      cc.req[p].target # cc.req[q].target
====
